---- MODULE Spec2Model ----
(***************************************************************************)
(* A state-machine model of the air-hockey repository: the canvas          *)
(* simulation loop (the three GameCanvas implementations the repository    *)
(* holds), the App state above it and the advisory fetch.                  *)
(*                                                                         *)
(* Numbers.  The program computes in IEEE doubles; the model computes in   *)
(* fixed point with three decimals: the integer n stands for n / 1000      *)
(* (positions in px, velocities in px per nominal frame, delta-times in    *)
(* nominal frames, strategy values).  Every product and quotient truncates *)
(* toward zero.  TLC's integers are 32 bits wide, so products are taken    *)
(* in two halves and large hypotenuses are scaled down before squaring.    *)
(***************************************************************************)
EXTENDS Integers, Sequences, FiniteSets, TLC

\* ------------------------------------------------------------ fixed point

ONE == 10 * 10 * 10
MILLION == ONE * ONE

Px(n) == n * ONE

Abs(a) == IF a < 0 THEN -a ELSE a

Sgn(a) == IF a < 0 THEN -1 ELSE IF a > 0 THEN 1 ELSE 0

Min(a, b) == IF a < b THEN a ELSE b

Max(a, b) == IF a > b THEN a ELSE b

\* Integer division truncating toward zero.
TDiv(a, b) == Sgn(a) * Sgn(b) * (Abs(a) \div Abs(b))

MulAbs(a, b) == (a \div ONE) * b + ((a % ONE) * b) \div ONE

\* a * b of two fixed-point numbers.
Mul(a, b) == Sgn(a) * Sgn(b) * MulAbs(Max(Abs(a), Abs(b)), Min(Abs(a), Abs(b)))

DivAbs(a, b) == (a \div b) * ONE + ((a % b) * ONE) \div b

\* a / b of two fixed-point numbers, b # 0.
Div(a, b) == Sgn(a) * Sgn(b) * DivAbs(Abs(a), Abs(b))

RECURSIVE Newton(_, _)
Newton(n, x) ==
  LET y == (x + n \div x) \div 2
  IN  IF y >= x THEN x ELSE Newton(n, y)

\* Floor of the square root of a natural number.
ISqrt(n) == IF n < 2 THEN n ELSE Newton(n, Min(n, 46340))

RECURSIVE HypotAbs(_, _)
HypotAbs(a, b) ==
  IF Max(a, b) <= 23170 THEN ISqrt(a * a + b * b)
  ELSE 4 * HypotAbs(a \div 4, b \div 4)

\* Math.sqrt(a*a + b*b) of two fixed-point numbers.
Hypot(a, b) == HypotAbs(Abs(a), Abs(b))

\* Math.cos(Math.atan2(dy, dx)) and Math.sin(Math.atan2(dy, dx)), d the
\* length of (dx, dy): atan2(0, 0) is 0, so coincident centres give (1, 0).
CosAtan2(dy, dx, d) == IF d = 0 THEN ONE ELSE Div(dx, d)

SinAtan2(dy, dx, d) == IF d = 0 THEN 0 ELSE Div(dy, d)

\* The value of 0 / 0 and of every sum, product and comparison it enters:
\* not a number, outside the range of every coordinate and speed.
NaN == -(2^30)

\* The entity with the coordinates and the velocity that a normal of 0 / 0
\* leaves: each is the sum of a number and a product with NaN.
notANumber(e) == [e EXCEPT !.x = NaN, !.y = NaN, !.vx = NaN, !.vy = NaN]

\* Math.pow(base, e) for a base just below 1, in millionths: the binomial
\* series of (1 - x)^e to second order, x = 1 - base.
Pow(base, e) ==
  LET x  == (ONE - base) * ONE
      t1 == (e * x) \div ONE
      t2 == (TDiv(e * (ONE - e), ONE) * ((x * x) \div MILLION)) \div (2 * ONE)
  IN  MILLION - t1 - t2

\* v * f for a factor f in millionths, f <= 1.
MulPpm(v, f) == v - TDiv(TDiv(v, ONE) * (MILLION - f) + TDiv((v - TDiv(v, ONE) * ONE) * (MILLION - f), ONE), ONE)

clamp(v, min, max) == Min(Max(v, min), max)

\* const name = v, for the statements In that follow it.
Let(v, In(_)) == In(v)

\* ------------------------------------------------------ program constants

CANVAS_WIDTH == 800
CANVAS_HEIGHT == 1200
PUCK_RADIUS == 28
PADDLE_RADIUS == 50
GOAL_WIDTH == 280
\* 0.995 and 0.85, in thousandths
FRICTION == 995
WALL_ELASTICITY == 850
PADDLE_MASS == 300
PUCK_MASS == 15
MAX_SPEED == 40
WIN_SCORE == 7

W == Px(CANVAS_WIDTH)
H == Px(CANVAS_HEIGHT)
GOAL_LEFT_X == TDiv(Px(CANVAS_WIDTH - GOAL_WIDTH), 2)
GOAL_RIGHT_X == TDiv(Px(CANVAS_WIDTH + GOAL_WIDTH), 2)

\* ------------------------------------------------------------- entities

\* An Entity of types.ts: position, velocity, radius, mass (mass a plain
\* number, not fixed point).
Entity(x, y, radius, mass) ==
  [x |-> x, y |-> y, vx |-> 0, vy |-> 0, radius |-> radius, mass |-> mass]

\* The reciprocal of a mass, in millionths (1/300 has no three-decimal form).
InvMass(m) == MILLION \div m

\* s / (1/m1 + 1/m2): the quotient is taken as a product with the
\* three-decimal reciprocal of the sum of the reciprocal masses.
DivByInvMasses(s, m1, m2) == Mul(s, (ONE * MILLION) \div (InvMass(m1) + InvMass(m2)))

NoTarget == [set |-> FALSE, x |-> 0, y |-> 0]

Target(x, y) == [set |-> TRUE, x |-> x, y |-> y]

\* onScoreUpdate(p, a, scorer), as the canvas calls it from a closure that
\* holds the gameState gs: the call is logged with the scores the closure
\* held and what the canvas had done when it was made.
onScoreUpdate(w, gs, p, a, scorer) ==
  [w EXCEPT !.calls = Append(@, [player |-> p, ai |-> a, scorer |-> scorer,
                                 seen |-> gs.score,
                                 resetting |-> w.isResetting,
                                 timers |-> Len(w.timers),
                                 puck |-> w.puck])]

\* --------------------------------------- canvas B (services/geminiService.ts)

POST_RADIUS_B == 22
ANCHOR_B == 200
SUBSTEPS_B == 6
MAX_DT_B == 3
RESET_DELAY_B == 1000

\* resetPositions leaving the paddles where they are.
resetPositions_B_puckOnly(w, scorer) ==
  [w EXCEPT
     !.isResetting = TRUE,
     !.goalOverlay = IF scorer = "player" THEN "GOAL!" ELSE "AI GOAL!",
     !.puck = [@ EXCEPT !.vx = 0, !.vy = 0, !.x = TDiv(W, 2), !.y = TDiv(H, 2)],
     !.inputTarget = NoTarget,
     !.timers = Append(@, [scorer |-> scorer, delay |-> RESET_DELAY_B])]

\* resetPositions arming its timer without entering the RESETTING phase.
resetPositions_B_unflagged(w, scorer) ==
  [w EXCEPT
     !.goalOverlay = IF scorer = "player" THEN "GOAL!" ELSE "AI GOAL!",
     !.puck = [@ EXCEPT !.vx = 0, !.vy = 0, !.x = TDiv(W, 2), !.y = TDiv(H, 2)],
     !.player = [@ EXCEPT !.vx = 0, !.vy = 0, !.x = TDiv(W, 2), !.y = H - Px(ANCHOR_B)],
     !.ai = [@ EXCEPT !.vx = 0, !.vy = 0, !.x = TDiv(W, 2), !.y = Px(ANCHOR_B)],
     !.inputTarget = NoTarget,
     !.timers = Append(@, [scorer |-> scorer, delay |-> RESET_DELAY_B])]

\* resetPositions leaving the input target as it is.
resetPositions_B_keepTarget(w, scorer) ==
  [w EXCEPT
     !.isResetting = TRUE,
     !.goalOverlay = IF scorer = "player" THEN "GOAL!" ELSE "AI GOAL!",
     !.puck = [@ EXCEPT !.vx = 0, !.vy = 0, !.x = TDiv(W, 2), !.y = TDiv(H, 2)],
     !.player = [@ EXCEPT !.vx = 0, !.vy = 0, !.x = TDiv(W, 2), !.y = H - Px(ANCHOR_B)],
     !.ai = [@ EXCEPT !.vx = 0, !.vy = 0, !.x = TDiv(W, 2), !.y = Px(ANCHOR_B)],
     !.timers = Append(@, [scorer |-> scorer, delay |-> RESET_DELAY_B])]

resetPositions_B(w, scorer) ==
  [w EXCEPT
     !.isResetting = TRUE,
     !.goalOverlay = IF scorer = "player" THEN "GOAL!" ELSE "AI GOAL!",
     !.puck = [@ EXCEPT !.vx = 0, !.vy = 0, !.x = TDiv(W, 2), !.y = TDiv(H, 2)],
     !.player = [@ EXCEPT !.vx = 0, !.vy = 0, !.x = TDiv(W, 2), !.y = H - Px(ANCHOR_B)],
     !.ai = [@ EXCEPT !.vx = 0, !.vy = 0, !.x = TDiv(W, 2), !.y = Px(ANCHOR_B)],
     !.inputTarget = NoTarget,
     !.timers = Append(@, [scorer |-> scorer, delay |-> RESET_DELAY_B])]

\* The deferred callback of resetPositions; rand is Math.random().
serve_B(w, scorer, rand) ==
  LET dirY == IF scorer = "player" THEN 1 ELSE -1
  IN  [w EXCEPT
         !.goalOverlay = "null",
         !.isResetting = FALSE,
         !.puck = [@ EXCEPT !.vx = Mul(rand - 500, Px(10)), !.vy = dirY * Px(10)]]

\* resolveCollision giving the puck only its share of the impulse, the
\* impulse split in proportion to the inverse masses.
resolveCollision_shared(e1, e2) ==
  Let(e2.x - e1.x, LAMBDA dx :
  Let(e2.y - e1.y, LAMBDA dy :
  Let(Hypot(dx, dy), LAMBDA distance :
  Let(e1.radius + e2.radius, LAMBDA minDist :
    IF distance < minDist
    THEN Let(SinAtan2(dy, dx, distance), LAMBDA sin :
         Let(CosAtan2(dy, dx, distance), LAMBDA cos :
         Let(minDist - distance, LAMBDA overlap :
         Let([e2 EXCEPT !.x = @ + Mul(cos, overlap + 500),
                        !.y = @ + Mul(sin, overlap + 500)], LAMBDA moved :
         Let(Mul(e2.vx - e1.vx, cos) + Mul(e2.vy - e1.vy, sin), LAMBDA velAlongNormal :
           IF velAlongNormal > 0 THEN moved
           ELSE Let(-Mul(ONE + 1100, velAlongNormal), LAMBDA impulseScalar :
                Let(Mul(DivByInvMasses(impulseScalar, e1.mass, e2.mass),
                        Div(InvMass(e2.mass), InvMass(e1.mass) + InvMass(e2.mass))),
                    LAMBDA impulse :
                Let(e2.vx + Mul(TDiv(impulse, e2.mass), cos), LAMBDA vx :
                Let(e2.vy + Mul(TDiv(impulse, e2.mass), sin), LAMBDA vy :
                Let(Hypot(vx, vy), LAMBDA speed :
                  IF speed > Px(MAX_SPEED)
                  THEN [moved EXCEPT !.vx = Mul(Div(vx, speed), Px(MAX_SPEED)),
                                     !.vy = Mul(Div(vy, speed), Px(MAX_SPEED))]
                  ELSE [moved EXCEPT !.vx = vx, !.vy = vy]))))))))))
    ELSE e2))))

\* resolveCollision(e1, e2): only e2 (the puck) is written; the result is e2.
resolveCollision(e1, e2) ==
  Let(e2.x - e1.x, LAMBDA dx :
  Let(e2.y - e1.y, LAMBDA dy :
  Let(Hypot(dx, dy), LAMBDA distance :
  Let(e1.radius + e2.radius, LAMBDA minDist :
    IF distance < minDist
    THEN Let(SinAtan2(dy, dx, distance), LAMBDA sin :
         Let(CosAtan2(dy, dx, distance), LAMBDA cos :
         Let(minDist - distance, LAMBDA overlap :
         Let([e2 EXCEPT !.x = @ + Mul(cos, overlap + 500),
                        !.y = @ + Mul(sin, overlap + 500)], LAMBDA moved :
         Let(Mul(e2.vx - e1.vx, cos) + Mul(e2.vy - e1.vy, sin), LAMBDA velAlongNormal :
           IF velAlongNormal > 0 THEN moved
           ELSE Let(-Mul(ONE + 1100, velAlongNormal), LAMBDA impulseScalar :
                Let(DivByInvMasses(impulseScalar, e1.mass, e2.mass), LAMBDA impulse :
                Let(e2.vx + Mul(TDiv(impulse, e2.mass), cos), LAMBDA vx :
                Let(e2.vy + Mul(TDiv(impulse, e2.mass), sin), LAMBDA vy :
                Let(Hypot(vx, vy), LAMBDA speed :
                  IF speed > Px(MAX_SPEED)
                  THEN [moved EXCEPT !.vx = Mul(Div(vx, speed), Px(MAX_SPEED)),
                                     !.vy = Mul(Div(vy, speed), Px(MAX_SPEED))]
                  ELSE [moved EXCEPT !.vx = vx, !.vy = vy]))))))))))
    ELSE e2))))

\* The goal branch with its two calls in the other order.
goal_B_resetFirst(w, gs, scorer) ==
  onScoreUpdate(resetPositions_B(w, scorer), gs,
                gs.score.player + (IF scorer = "player" THEN 1 ELSE 0),
                gs.score.ai + (IF scorer = "ai" THEN 1 ELSE 0), scorer)

\* The goal branch crediting the side whose goal the puck entered.
goal_B_ownGoal(w, gs, scorer) ==
  resetPositions_B(
    onScoreUpdate(w, gs, gs.score.player + (IF scorer = "ai" THEN 1 ELSE 0),
                     gs.score.ai + (IF scorer = "player" THEN 1 ELSE 0), scorer),
    scorer)

\* The goal branch of checkBoundaries: the score signal, then the reset.
goal_B(w, gs, scorer) ==
  resetPositions_B(
    onScoreUpdate(w, gs, gs.score.player + (IF scorer = "player" THEN 1 ELSE 0),
                     gs.score.ai + (IF scorer = "ai" THEN 1 ELSE 0), scorer),
    scorer)

\* One goal post of the posts.forEach of checkBoundaries.
post_B(p, post) ==
  Let(p.x - post.x, LAMBDA dx :
  Let(p.y - post.y, LAMBDA dy :
  Let(Hypot(dx, dy), LAMBDA dist :
    IF dist < p.radius + Px(POST_RADIUS_B)
    THEN Let(CosAtan2(dy, dx, dist), LAMBDA cos :
         Let(SinAtan2(dy, dx, dist), LAMBDA sin :
         Let(Mul(p.vx, cos) + Mul(p.vy, sin), LAMBDA dot :
           [p EXCEPT !.x = post.x + Mul(cos, p.radius + Px(POST_RADIUS_B) + 100),
                     !.y = post.y + Mul(sin, p.radius + Px(POST_RADIUS_B) + 100),
                     !.vx = Mul(p.vx - 2 * Mul(dot, cos), WALL_ELASTICITY),
                     !.vy = Mul(p.vy - 2 * Mul(dot, sin), WALL_ELASTICITY)])))
    ELSE p)))

posts == << [x |-> GOAL_LEFT_X, y |-> 0], [x |-> GOAL_RIGHT_X, y |-> 0],
            [x |-> GOAL_LEFT_X, y |-> H], [x |-> GOAL_RIGHT_X, y |-> H] >>

\* Side walls that return the puck at the speed it came with.
sideWalls_lossless(p) ==
  Let(IF p.x < p.radius
      THEN [p EXCEPT !.x = p.radius, !.vx = Abs(p.vx)]
      ELSE p, LAMBDA l :
    IF l.x > W - l.radius
    THEN [l EXCEPT !.x = W - l.radius, !.vx = -Abs(l.vx)]
    ELSE l)

\* The side walls of checkBoundaries.
sideWalls(p) ==
  Let(IF p.x < p.radius
      THEN [p EXCEPT !.x = p.radius, !.vx = Mul(Abs(p.vx), WALL_ELASTICITY)]
      ELSE p, LAMBDA l :
    IF l.x > W - l.radius
    THEN [l EXCEPT !.x = W - l.radius, !.vx = -Mul(Abs(l.vx), WALL_ELASTICITY)]
    ELSE l)

\* Top and bottom walls that run across the goal mouth as well.
endWalls_noMouth(p) ==
  Let(IF p.y < p.radius
      THEN [p EXCEPT !.y = p.radius, !.vy = Mul(Abs(p.vy), WALL_ELASTICITY)]
      ELSE p, LAMBDA t :
    IF t.y > H - t.radius
    THEN [t EXCEPT !.y = H - t.radius, !.vy = -Mul(Abs(t.vy), WALL_ELASTICITY)]
    ELSE t)

\* The top and bottom walls of checkBoundaries, outside the goal mouth.
endWalls(p) ==
  IF p.x < GOAL_LEFT_X \/ p.x > GOAL_RIGHT_X
  THEN Let(IF p.y < p.radius
           THEN [p EXCEPT !.y = p.radius, !.vy = Mul(Abs(p.vy), WALL_ELASTICITY)]
           ELSE p, LAMBDA t :
         IF t.y > H - t.radius
         THEN [t EXCEPT !.y = H - t.radius, !.vy = -Mul(Abs(t.vy), WALL_ELASTICITY)]
         ELSE t)
  ELSE p

\* The move with a friction of FRICTION per sub-step, whatever its delta.
integrate_perStep(p, dt) ==
  [p EXCEPT !.x = @ + Mul(p.vx, dt), !.y = @ + Mul(p.vy, dt),
            !.vx = Mul(@, FRICTION), !.vy = Mul(@, FRICTION)]

\* The puck after integration and friction.
integrate(p, dt) ==
  Let(Pow(FRICTION, dt), LAMBDA friction :
    [p EXCEPT !.x = @ + Mul(p.vx, dt), !.y = @ + Mul(p.vy, dt),
              !.vx = MulPpm(@, friction), !.vy = MulPpm(@, friction)])

\* checkBoundaries with a goal line that scores when touched.
checkBoundaries_touching(w, dt, gs) ==
  IF w.isResetting THEN w
  ELSE Let(integrate(w.puck, dt), LAMBDA p :
       Let([w EXCEPT !.puck = p], LAMBDA m :
         IF p.x > GOAL_LEFT_X /\ p.x < GOAL_RIGHT_X /\ p.y <= -p.radius
         THEN goal_B(m, gs, "player")
         ELSE IF p.x > GOAL_LEFT_X /\ p.x < GOAL_RIGHT_X /\ p.y >= H + p.radius
         THEN goal_B(m, gs, "ai")
         ELSE [m EXCEPT !.puck =
                 post_B(post_B(post_B(post_B(endWalls(sideWalls(p)),
                        posts[1]), posts[2]), posts[3]), posts[4])]))

checkBoundaries(w, dt, gs) ==
  IF w.isResetting THEN w
  ELSE Let(integrate(w.puck, dt), LAMBDA p :
       Let([w EXCEPT !.puck = p], LAMBDA m :
         IF p.x > GOAL_LEFT_X /\ p.x < GOAL_RIGHT_X /\ p.y < -p.radius
         THEN goal_B(m, gs, "player")
         ELSE IF p.x > GOAL_LEFT_X /\ p.x < GOAL_RIGHT_X /\ p.y > H + p.radius
         THEN goal_B(m, gs, "ai")
         ELSE [m EXCEPT !.puck =
                 post_B(post_B(post_B(post_B(endWalls(sideWalls(p)),
                        posts[1]), posts[2]), posts[3]), posts[4])]))

\* The steering of updateAI: the paddle a pursues the target (tx, ty).
steer(a, tx, ty, dt, deadzone, maxS, lerpRate, damp) ==
  Let(tx - a.x, LAMBDA dx :
  Let(ty - a.y, LAMBDA dy :
  Let(Hypot(dx, dy), LAMBDA d :
  Let(IF d > deadzone
      THEN a.vx + Mul(Mul(Div(dx, d), maxS) - a.vx, Mul(lerpRate, dt))
      ELSE Mul(a.vx, damp), LAMBDA vx :
  Let(IF d > deadzone
      THEN a.vy + Mul(Mul(Div(dy, d), maxS) - a.vy, Mul(lerpRate, dt))
      ELSE Mul(a.vy, damp), LAMBDA vy :
    [a EXCEPT !.vx = vx, !.vy = vy, !.x = @ + Mul(vx, dt), !.y = @ + Mul(vy, dt)])))))

\* The target point with a puck on the centre line counted to the AI's half.
aiTarget_B_centreLine(a, pk, aggression) ==
  IF pk.y <= TDiv(H, 2)
  THEN IF pk.y < a.y - Px(10)
       THEN [x |-> TDiv(W, 2), y |-> Px(100)]
       ELSE [x |-> pk.x + Mul(pk.vx, Mul(aggression, Px(8))), y |-> pk.y + Px(15)]
  ELSE [x |-> pk.x,
        y |-> clamp(Px(180) + Mul(pk.y - TDiv(H, 2), Mul(aggression, 300)),
                    Px(80), Mul(H, 450))]

\* The target point with a guard position that is not clamped.
aiTarget_B_unclamped(a, pk, aggression) ==
  IF pk.y < TDiv(H, 2)
  THEN IF pk.y < a.y - Px(10)
       THEN [x |-> TDiv(W, 2), y |-> Px(100)]
       ELSE [x |-> pk.x + Mul(pk.vx, Mul(aggression, Px(8))), y |-> pk.y + Px(15)]
  ELSE [x |-> pk.x,
        y |-> Px(180) + Mul(pk.y - TDiv(H, 2), Mul(aggression, 300))]

\* The target point of updateAI.
aiTarget_B(a, pk, aggression) ==
  IF pk.y < TDiv(H, 2)
  THEN IF pk.y < a.y - Px(10)
       THEN [x |-> TDiv(W, 2), y |-> Px(100)]
       ELSE [x |-> pk.x + Mul(pk.vx, Mul(aggression, Px(8))), y |-> pk.y + Px(15)]
  ELSE [x |-> pk.x,
        y |-> clamp(Px(180) + Mul(pk.y - TDiv(H, 2), Mul(aggression, 300)),
                    Px(80), Mul(H, 450))]

\* updateAI without its isResetting return.
updateAI_B_unguarded(w, dt, gs) ==
  Let(aiTarget_B(w.ai, w.puck, gs.aiStrategy.aggression), LAMBDA t :
  Let(steer(w.ai, t.x, t.y, dt, Px(2),
            Mul(Mul(Px(MAX_SPEED), 700), gs.aiStrategy.speedMultiplier),
            180, 700), LAMBDA a :
    [w EXCEPT !.ai = [a EXCEPT !.x = clamp(a.x, a.radius, W - a.radius),
                               !.y = clamp(a.y, a.radius, TDiv(H, 2) - a.radius)]]))

updateAI_B(w, dt, gs) ==
  IF w.isResetting THEN w
  ELSE Let(aiTarget_B(w.ai, w.puck, gs.aiStrategy.aggression), LAMBDA t :
       Let(steer(w.ai, t.x, t.y, dt, Px(2),
                 Mul(Mul(Px(MAX_SPEED), 700), gs.aiStrategy.speedMultiplier),
                 180, 700), LAMBDA a :
         [w EXCEPT !.ai = [a EXCEPT !.x = clamp(a.x, a.radius, W - a.radius),
                                    !.y = clamp(a.y, a.radius, TDiv(H, 2) - a.radius)]]))

\* The "Player Follow" block without the clamp after it.
playerFollow_B_unclamped(w, dt) ==
  Let(w.player, LAMBDA p :
  Let(Mul(450, dt), LAMBDA lerp :
  Let(Mul(w.inputTarget.x - p.x, lerp), LAMBDA vx :
  Let(Mul(w.inputTarget.y - p.y, lerp), LAMBDA vy :
    [w EXCEPT !.player =
       IF w.inputTarget.set /\ ~w.isResetting
       THEN [p EXCEPT !.vx = vx, !.vy = vy, !.x = @ + Mul(vx, dt), !.y = @ + Mul(vy, dt)]
       ELSE [p EXCEPT !.vx = Mul(@, 800), !.vy = Mul(@, 800)]]))))

\* The "Player Follow" block of update and the clamp after it.
playerFollow_B(w, dt) ==
  Let(w.player, LAMBDA p :
  Let(Mul(450, dt), LAMBDA lerp :
  Let(Mul(w.inputTarget.x - p.x, lerp), LAMBDA vx :
  Let(Mul(w.inputTarget.y - p.y, lerp), LAMBDA vy :
  Let(IF w.inputTarget.set /\ ~w.isResetting
      THEN [p EXCEPT !.vx = vx, !.vy = vy, !.x = @ + Mul(vx, dt), !.y = @ + Mul(vy, dt)]
      ELSE [p EXCEPT !.vx = Mul(@, 800), !.vy = Mul(@, 800)], LAMBDA q :
    [w EXCEPT !.player = [q EXCEPT !.x = clamp(q.x, q.radius, W - q.radius),
                                   !.y = clamp(q.y, TDiv(H, 2) + q.radius,
                                               H - q.radius)]])))))

\* What the sub-step loop leaves of each iteration: the entities and the phase
\* at its end, the phase at its start, and the deltas of the tick and of the
\* sub-step.
logStep(w, before, stepDt) ==
  [w EXCEPT !.steps = Append(@, [puck |-> w.puck, player |-> w.player, ai |-> w.ai,
                                 isResetting |-> w.isResetting, before |-> before,
                                 dt |-> w.dt, stepDt |-> stepDt])]

\* One iteration of the sub-step loop of update.
subStep_B(w, stepDt, gs) ==
  Let(checkBoundaries(w, stepDt, gs), LAMBDA b :
  Let([b EXCEPT !.puck = resolveCollision(b.player, b.puck)], LAMBDA c :
  Let([c EXCEPT !.puck = resolveCollision(c.ai, c.puck)], LAMBDA d :
    logStep(d, w.isResetting, stepDt))))

RECURSIVE loop_B(_, _, _, _)
loop_B(w, stepDt, gs, n) ==
  IF n = 0 THEN w ELSE loop_B(subStep_B(w, stepDt, gs), stepDt, gs, n - 1)

\* The simulation part of update: controllers once, then the sub-steps.
simulate_B(w, dt, gs) ==
  loop_B(updateAI_B(playerFollow_B(w, dt), dt, gs), TDiv(dt, SUBSTEPS_B), gs, SUBSTEPS_B)

\* ------------------------------ canvas A (components/GameCanvas.tsx, first)

POST_RADIUS_A == 15
ANCHOR_A == 150
SUBSTEPS_A == 4
MAX_DT_A == 4
RESET_DELAY_A == 1200

dist(p1, p2) == Hypot(p2.x - p1.x, p2.y - p1.y)

len(vx, vy) == Hypot(vx, vy)

resetPositions_A(w, scorer) ==
  [w EXCEPT
     !.isResetting = TRUE,
     !.goalOverlay = IF scorer = "player" THEN "GOAL!" ELSE "AI SCORES!",
     !.puck = [@ EXCEPT !.vx = 0, !.vy = 0, !.x = TDiv(W, 2), !.y = TDiv(H, 2)],
     !.player = [@ EXCEPT !.vx = 0, !.vy = 0, !.x = TDiv(W, 2), !.y = H - Px(ANCHOR_A)],
     !.ai = [@ EXCEPT !.vx = 0, !.vy = 0, !.x = TDiv(W, 2), !.y = Px(ANCHOR_A)],
     !.inputTarget = Target(TDiv(W, 2), H - Px(ANCHOR_A)),
     !.timers = Append(@, [scorer |-> scorer, delay |-> RESET_DELAY_A])]

\* The deferred callback of resetPositions; rand is Math.random().
serve_A(w, scorer, rand) ==
  LET serveSpeed == Px(8)
      dirY == IF scorer = "player" THEN 1 ELSE -1
      dirX == Mul(rand, Px(6)) - Px(3)
  IN  [w EXCEPT
         !.goalOverlay = "null",
         !.isResetting = FALSE,
         !.puck = [@ EXCEPT !.vx = dirX, !.vy = dirY * serveSpeed]]

\* rotate(v, theta) of resolvePaddleCollision, theta given by its cosine and sine.
rotate(vx, vy, cos, sin) ==
  [x |-> Mul(vx, cos) + Mul(vy, sin), y |-> -Mul(vx, sin) + Mul(vy, cos)]

\* resolvePaddleCollision(paddle, puck) of canvas A; the result is the puck.
resolvePaddleCollision_A(paddle, pk) ==
  Let(dist(pk, paddle), LAMBDA d :
  Let(pk.radius + paddle.radius, LAMBDA minDist :
    IF d < minDist
    THEN Let(CosAtan2(pk.y - paddle.y, pk.x - paddle.x, d), LAMBDA cos :
         Let(SinAtan2(pk.y - paddle.y, pk.x - paddle.x, d), LAMBDA sin :
         Let(minDist - d, LAMBDA overlap :
         Let(rotate(paddle.vx, paddle.vy, cos, sin), LAMBDA v1 :
         Let(rotate(pk.vx, pk.vy, cos, sin), LAMBDA v2 :
         Let(TDiv((pk.mass - paddle.mass) * v2.x + 2 * paddle.mass * v1.x,
                  paddle.mass + pk.mass), LAMBDA v2FinalX :
         Let(rotate(v2FinalX, v2.y, cos, -sin), LAMBDA v2Final :
         Let(len(v2Final.x, v2Final.y), LAMBDA speed :
         Let(Px(5), LAMBDA minPop :
         Let(Div(minPop, IF speed = 0 THEN ONE ELSE speed), LAMBDA boostFactor :
           [pk EXCEPT !.x = @ + Mul(cos, overlap + 500),
                      !.y = @ + Mul(sin, overlap + 500),
                      !.vx = IF speed < minPop THEN Mul(v2Final.x, boostFactor)
                             ELSE v2Final.x,
                      !.vy = IF speed < minPop THEN Mul(v2Final.y, boostFactor)
                             ELSE v2Final.y]))))))))))
    ELSE pk))

checkCircleCollision(pk, cx, cy, r) ==
  Let(pk.x - cx, LAMBDA dx :
  Let(pk.y - cy, LAMBDA dy :
  Let(Hypot(dx, dy), LAMBDA d :
  Let(pk.radius + r, LAMBDA minDist :
    IF d = 0 THEN notANumber(pk)
    ELSE IF d < minDist
    THEN Let(Div(dx, d), LAMBDA nx :
         Let(Div(dy, d), LAMBDA ny :
         Let(minDist - d, LAMBDA overlap :
         Let(Mul(pk.vx, nx) + Mul(pk.vy, ny), LAMBDA dot :
           [pk EXCEPT !.x = @ + Mul(nx, overlap + 100),
                      !.y = @ + Mul(ny, overlap + 100),
                      !.vx = Mul(pk.vx - 2 * Mul(dot, nx), WALL_ELASTICITY),
                      !.vy = Mul(pk.vy - 2 * Mul(dot, ny), WALL_ELASTICITY)]))))
    ELSE pk))))

constrainEntity(e, minY, maxY) ==
  [e EXCEPT !.x = clamp(e.x, e.radius, W - e.radius),
            !.y = clamp(e.y, minY + e.radius, maxY - e.radius)]

\* Step 1 of updatePhysics: move, friction, stop if slow, clamp max speed.
movePuck_A(p, dt) ==
  Let(Pow(FRICTION, dt), LAMBDA frictionFactor :
  Let(MulPpm(p.vx, frictionFactor), LAMBDA fx :
  Let(MulPpm(p.vy, frictionFactor), LAMBDA fy :
  Let(IF Abs(fx) < 50 THEN 0 ELSE fx, LAMBDA sx :
  Let(IF Abs(fy) < 50 THEN 0 ELSE fy, LAMBDA sy :
  Let(len(sx, sy), LAMBDA currentSpeed :
    IF currentSpeed > Px(MAX_SPEED)
    THEN Let(Div(Px(MAX_SPEED), currentSpeed), LAMBDA scale :
           [p EXCEPT !.x = @ + Mul(p.vx, dt), !.y = @ + Mul(p.vy, dt),
                     !.vx = Mul(sx, scale), !.vy = Mul(sy, scale)])
    ELSE [p EXCEPT !.x = @ + Mul(p.vx, dt), !.y = @ + Mul(p.vy, dt),
                   !.vx = sx, !.vy = sy]))))))

goal_A(w, gs, scorer) ==
  resetPositions_A(
    onScoreUpdate(w, gs, gs.score.player + (IF scorer = "player" THEN 1 ELSE 0),
                     gs.score.ai + (IF scorer = "ai" THEN 1 ELSE 0), scorer),
    scorer)

\* Steps 3 to 5 of updatePhysics: walls, posts, paddle constraints and
\* paddle collisions.
collide_A(m) ==
  Let(checkCircleCollision(checkCircleCollision(checkCircleCollision(
        checkCircleCollision(endWalls(sideWalls(m.puck)),
          GOAL_LEFT_X, 0, Px(POST_RADIUS_A)),
          GOAL_RIGHT_X, 0, Px(POST_RADIUS_A)),
          GOAL_LEFT_X, H, Px(POST_RADIUS_A)),
          GOAL_RIGHT_X, H, Px(POST_RADIUS_A)), LAMBDA q :
  Let(constrainEntity(m.player, TDiv(H, 2), H), LAMBDA pl :
  Let(constrainEntity(m.ai, 0, TDiv(H, 2)), LAMBDA a :
    [m EXCEPT !.player = pl, !.ai = a,
              !.puck = resolvePaddleCollision_A(a, resolvePaddleCollision_A(pl, q))])))

\* updatePhysics(dt): the refs after the call, and the value it returns.
updatePhysics(w, dt, gs) ==
  IF w.isResetting THEN [w |-> w, reset |-> FALSE]
  ELSE Let(movePuck_A(w.puck, dt), LAMBDA p :
       Let([w EXCEPT !.puck = p], LAMBDA m :
         IF p.y < -p.radius /\ p.x > GOAL_LEFT_X /\ p.x < GOAL_RIGHT_X
         THEN [w |-> goal_A(m, gs, "player"), reset |-> TRUE]
         ELSE IF p.y > H + p.radius /\ p.x > GOAL_LEFT_X /\ p.x < GOAL_RIGHT_X
         THEN [w |-> goal_A(m, gs, "ai"), reset |-> TRUE]
         ELSE [w |-> collide_A(m), reset |-> FALSE]))

aiTarget_A(a, pk, aggression) ==
  IF pk.y < TDiv(H, 2)
  THEN IF pk.y < a.y - Px(10)
       THEN [x |-> TDiv(W, 2), y |-> Px(80)]
       ELSE [x |-> pk.x, y |-> pk.y + Px(20)]
  ELSE [x |-> pk.x,
        y |-> clamp(Px(150) + Mul(pk.y - TDiv(H, 2), Mul(aggression, 400)),
                    Px(50), Mul(H, 450))]

updateAI_A(w, dt, gs) ==
  IF w.isResetting THEN w
  ELSE Let(aiTarget_A(w.ai, w.puck, gs.aiStrategy.aggression), LAMBDA t :
         [w EXCEPT !.ai = steer(w.ai, t.x, t.y, dt, Px(5),
                      Mul(Mul(Px(MAX_SPEED), 800), gs.aiStrategy.speedMultiplier),
                      100, 800)])

\* The "Player Input" block of update.
playerInput_A(w, dt) ==
  Let(w.player, LAMBDA p :
  Let(Mul(300, dt), LAMBDA lerpFactor :
  Let(Mul(w.inputTarget.x - p.x, lerpFactor), LAMBDA vx :
  Let(Mul(w.inputTarget.y - p.y, lerpFactor), LAMBDA vy :
    IF w.inputTarget.set /\ ~w.isResetting
    THEN [w EXCEPT !.player = [p EXCEPT !.vx = vx, !.vy = vy,
                                        !.x = @ + Mul(vx, dt), !.y = @ + Mul(vy, dt)]]
    ELSE w))))

RECURSIVE loop_A(_, _, _, _)
loop_A(w, stepDt, gs, n) ==
  IF n = 0 THEN w
  ELSE Let(updatePhysics(w, stepDt, gs), LAMBDA r :
       Let(logStep(r.w, w.isResetting, stepDt), LAMBDA l :
         IF r.reset THEN l ELSE loop_A(l, stepDt, gs, n - 1)))

simulate_A(w, dt, gs) ==
  loop_A(updateAI_A(playerInput_A(w, dt), dt, gs), TDiv(dt, SUBSTEPS_A), gs, SUBSTEPS_A)

\* ----------------------------- canvas C (components/GameCanvas.tsx, second)

POST_RADIUS_C == 25
ANCHOR_C == 250
SUBSTEPS_C == 8
MAX_DT_C == 3
RESET_DELAY_C == 1200

resetPuck(w, scorer) ==
  [w EXCEPT
     !.isResetting = TRUE,
     !.goalOverlay = IF scorer = "player" THEN "YOU SCORE!" ELSE "AI SCORED!",
     !.puck = [@ EXCEPT !.vx = 0, !.vy = 0, !.x = TDiv(W, 2), !.y = TDiv(H, 2)],
     !.player = [@ EXCEPT !.vx = 0, !.vy = 0, !.x = TDiv(W, 2), !.y = H - Px(ANCHOR_C)],
     !.ai = [@ EXCEPT !.vx = 0, !.vy = 0, !.x = TDiv(W, 2), !.y = Px(ANCHOR_C)],
     !.inputTarget = NoTarget,
     !.timers = Append(@, [scorer |-> scorer, delay |-> RESET_DELAY_C])]

\* The deferred callback of resetPuck; rand is Math.random().
serve_C(w, scorer, rand) ==
  LET serveDir == IF scorer = "player" THEN 1 ELSE -1
  IN  [w EXCEPT
         !.goalOverlay = "null",
         !.isResetting = FALSE,
         !.puck = [@ EXCEPT !.vx = Mul(rand - 500, Px(15)), !.vy = serveDir * Px(12)]]

\* resolvePaddleCollision(pdl, pck) of canvas C; the result is the puck.
resolvePaddleCollision_C(pdl, pck) ==
  Let(pck.x - pdl.x, LAMBDA dx :
  Let(pck.y - pdl.y, LAMBDA dy :
  Let(Hypot(dx, dy), LAMBDA distance :
  Let(pdl.radius + pck.radius, LAMBDA minDist :
    IF distance = 0 THEN notANumber(pck)
    ELSE IF distance < minDist
    THEN Let(Div(dx, distance), LAMBDA nx :
         Let(Div(dy, distance), LAMBDA ny :
         Let(minDist - distance, LAMBDA overlap :
         Let([pck EXCEPT !.x = @ + Mul(nx, overlap + ONE),
                         !.y = @ + Mul(ny, overlap + ONE)], LAMBDA moved :
         Let(Mul(pck.vx - pdl.vx, nx) + Mul(pck.vy - pdl.vy, ny), LAMBDA velAlongNormal :
           IF velAlongNormal > 0 THEN moved
           ELSE Let(1150, LAMBDA bounce :
                Let(DivByInvMasses(-Mul(ONE + bounce, velAlongNormal),
                                   pdl.mass, pck.mass), LAMBDA impulse :
                Let(pck.vx + Mul(TDiv(impulse, pck.mass), nx), LAMBDA vx :
                Let(pck.vy + Mul(TDiv(impulse, pck.mass), ny), LAMBDA vy :
                Let(Hypot(vx, vy), LAMBDA currentSpeed :
                  IF currentSpeed > Px(MAX_SPEED)
                  THEN [moved EXCEPT !.vx = Mul(Div(vx, currentSpeed), Px(MAX_SPEED)),
                                     !.vy = Mul(Div(vy, currentSpeed), Px(MAX_SPEED))]
                  ELSE [moved EXCEPT !.vx = vx, !.vy = vy]))))))))))
    ELSE pck))))

goal_C(w, gs, scorer) ==
  resetPuck(
    onScoreUpdate(w, gs, gs.score.player + (IF scorer = "player" THEN 1 ELSE 0),
                     gs.score.ai + (IF scorer = "ai" THEN 1 ELSE 0), scorer),
    scorer)

\* One goal post of the posts.forEach of physicsStep.
post_C(p, post) ==
  Let(p.x - post.x, LAMBDA dx :
  Let(p.y - post.y, LAMBDA dy :
  Let(Hypot(dx, dy), LAMBDA d :
  Let(p.radius + Px(POST_RADIUS_C), LAMBDA minP :
    IF d = 0 THEN notANumber(p)
    ELSE IF d < minP
    THEN Let(Div(dx, d), LAMBDA nx :
         Let(Div(dy, d), LAMBDA ny :
         Let(Mul(p.vx, nx) + Mul(p.vy, ny), LAMBDA dot :
           [p EXCEPT !.x = post.x + Mul(nx, minP + 500),
                     !.y = post.y + Mul(ny, minP + 500),
                     !.vx = Mul(p.vx - 2 * Mul(dot, nx), WALL_ELASTICITY),
                     !.vy = Mul(p.vy - 2 * Mul(dot, ny), WALL_ELASTICITY)])))
    ELSE p))))

physicsStep(w, dt, gs) ==
  IF w.isResetting THEN w
  ELSE Let(integrate(w.puck, dt), LAMBDA p :
       Let([w EXCEPT !.puck = p], LAMBDA m :
         IF p.x > GOAL_LEFT_X /\ p.x < GOAL_RIGHT_X /\ p.y < -p.radius
         THEN goal_C(m, gs, "player")
         ELSE IF p.x > GOAL_LEFT_X /\ p.x < GOAL_RIGHT_X /\ p.y > H + p.radius
         THEN goal_C(m, gs, "ai")
         ELSE Let(post_C(post_C(post_C(post_C(endWalls(sideWalls(p)),
                    posts[1]), posts[2]), posts[3]), posts[4]), LAMBDA q :
                [m EXCEPT !.puck = resolvePaddleCollision_C(m.ai,
                                     resolvePaddleCollision_C(m.player, q))])))

aiTarget_C(a, pk, aggression) ==
  IF pk.y < TDiv(H, 2)
  THEN IF pk.y < a.y - Px(10)
       THEN [x |-> TDiv(W, 2), y |-> Px(100)]
       ELSE [x |-> pk.x + Mul(pk.vx, Mul(aggression, Px(10))), y |-> pk.y + Px(20)]
  ELSE [x |-> pk.x,
        y |-> clamp(Px(200) + Mul(pk.y - TDiv(H, 2), Mul(aggression, 250)),
                    Px(100), Mul(H, 450))]

updateAI_C(w, dt, gs) ==
  IF w.isResetting THEN w
  ELSE Let(aiTarget_C(w.ai, w.puck, gs.aiStrategy.aggression), LAMBDA t :
       Let(steer(w.ai, t.x, t.y, dt, Px(5),
                 Mul(Mul(Px(MAX_SPEED), 700), gs.aiStrategy.speedMultiplier),
                 220, 800), LAMBDA a :
         [w EXCEPT !.ai = [a EXCEPT !.x = clamp(a.x, a.radius, W - a.radius),
                                    !.y = clamp(a.y, a.radius, TDiv(H, 2) - a.radius)]]))

\* The "Player Follow" block of update and the clamp after it.
playerFollow_C(w, dt) ==
  Let(w.player, LAMBDA pl :
  Let(Mul(500, dt), LAMBDA lerp :
  Let(Mul(w.inputTarget.x - pl.x, lerp), LAMBDA vx :
  Let(Mul(w.inputTarget.y - pl.y, lerp), LAMBDA vy :
  Let(IF w.inputTarget.set /\ ~w.isResetting
      THEN [pl EXCEPT !.vx = vx, !.vy = vy, !.x = @ + Mul(vx, dt), !.y = @ + Mul(vy, dt)]
      ELSE [pl EXCEPT !.vx = Mul(@, 800), !.vy = Mul(@, 800)], LAMBDA q :
    [w EXCEPT !.player = [q EXCEPT !.x = clamp(q.x, q.radius, W - q.radius),
                                   !.y = clamp(q.y, TDiv(H, 2) + q.radius,
                                               H - q.radius)]])))))

RECURSIVE loop_C(_, _, _, _)
loop_C(w, stepDt, gs, n) ==
  IF n = 0 THEN w
  ELSE loop_C(logStep(physicsStep(w, stepDt, gs), w.isResetting, stepDt), stepDt, gs, n - 1)

simulate_C(w, dt, gs) ==
  loop_C(updateAI_C(playerFollow_C(w, dt), dt, gs), TDiv(dt, SUBSTEPS_C), gs, SUBSTEPS_C)

\* -------------------------------------------------- the canvas of the run

simulate(v, w, dt, gs) ==
  IF v = "A" THEN simulate_A([w EXCEPT !.dt = dt], dt, gs)
  ELSE IF v = "B" THEN simulate_B([w EXCEPT !.dt = dt], dt, gs)
  ELSE simulate_C([w EXCEPT !.dt = dt], dt, gs)

serve(v, w, scorer, rand) ==
  IF v = "A" THEN serve_A(w, scorer, rand)
  ELSE IF v = "B" THEN serve_B(w, scorer, rand)
  ELSE serve_C(w, scorer, rand)

MaxDt(v) == IF v = "A" THEN MAX_DT_A ELSE IF v = "B" THEN MAX_DT_B ELSE MAX_DT_C

SubSteps(v) == IF v = "A" THEN SUBSTEPS_A ELSE IF v = "B" THEN SUBSTEPS_B ELSE SUBSTEPS_C

\* The delta without its clamp.
deltaTime_raw(v, time, last) == TDiv((time - last) * 100 * ONE, 1667)

\* dt of update: the milliseconds since the last callback in nominal frames
\* of 16.67 ms, clamped.
deltaTime(v, time, last) ==
  clamp(TDiv((time - last) * 100 * ONE, 1667), 0, Px(MaxDt(v)))

Anchor(v) == Px(IF v = "A" THEN ANCHOR_A ELSE IF v = "B" THEN ANCHOR_B ELSE ANCHOR_C)

PostRadius(v) ==
  Px(IF v = "A" THEN POST_RADIUS_A ELSE IF v = "B" THEN POST_RADIUS_B ELSE POST_RADIUS_C)

\* ------------------------------------------------- the App (App.tsx, part_000)

INITIAL_AI_STRATEGY ==
  [speedMultiplier |-> ONE, aggression |-> 500, reactionTime |-> 100, name |-> "Standard"]

NoScore == [player |-> 0, ai |-> 0]

\* The App's state after construction: useState of App.tsx or of part_000.
InitialGameState(a) ==
  [score |-> NoScore, isPlaying |-> FALSE, isPaused |-> FALSE, gameResult |-> "null",
   mode |-> "ROOKIE",
   commentary |-> IF a = "App" THEN "Welcome to the arena! Select a mode to start."
                  ELSE "Ready for a match?",
   aiStrategy |-> INITIAL_AI_STRATEGY]

\* What a handler works on: the state, the requests in flight, the loading
\* flag, and whether the handler stored a new aiStrategy object.
AppState(gs, rq, loading) ==
  [gameState |-> gs, requests |-> rq, loadingAI |-> loading, replaced |-> FALSE]

\* A call of fetchAIStrategy, until it settles.
Request(origin, pScore, aScore, commentary, event) ==
  [origin |-> origin, playerScore |-> pScore, aiScore |-> aScore,
   currentCommentary |-> commentary, event |-> event]

\* triggerGeminiUpdate of App.tsx up to its await; seen is the gameState of
\* the render the calling closure belongs to.
triggerGeminiUpdate(s, seen, pScore, aScore, event) ==
  IF seen.mode # "GEMINI_ADAPTIVE" THEN s
  ELSE [s EXCEPT !.loadingAI = TRUE,
                 !.requests = Append(@, Request("trigger", pScore, aScore,
                                                seen.commentary, event))]

\* setMode of App.tsx.
setMode(s, seen, mode) ==
  LET strategy ==
        IF mode = "ROOKIE"
        THEN [INITIAL_AI_STRATEGY EXCEPT !.speedMultiplier = 600, !.aggression = 200,
                                         !.name = "Rookie Bot"]
        ELSE IF mode = "PRO"
        THEN [INITIAL_AI_STRATEGY EXCEPT !.speedMultiplier = 1200, !.aggression = 800,
                                         !.name = "Pro Bot"]
        ELSE IF mode = "GEMINI_ADAPTIVE"
        THEN [INITIAL_AI_STRATEGY EXCEPT !.name = "Gemini AI"]
        ELSE INITIAL_AI_STRATEGY
      t == [s EXCEPT !.replaced = TRUE,
                     !.gameState = [@ EXCEPT !.mode = mode, !.aiStrategy = strategy,
                                             !.score = NoScore, !.gameResult = "null",
                                             !.commentary =
                                               IF mode = "GEMINI_ADAPTIVE"
                                               THEN "Connecting to Gemini Neural Net..."
                                               ELSE "Game Reset. Good luck!",
                                             !.isPlaying = FALSE]]
  IN  IF mode = "GEMINI_ADAPTIVE" THEN triggerGeminiUpdate(t, seen, 0, 0, "GAME_START")
      ELSE t

\* selectMode of part_000.
selectMode(s, mode) ==
  LET strategy ==
        IF mode = "ROOKIE"
        THEN [speedMultiplier |-> 600, aggression |-> 300, reactionTime |-> 200,
              name |-> "Rookie Bot"]
        ELSE IF mode = "PRO"
        THEN [speedMultiplier |-> 1150, aggression |-> 900, reactionTime |-> 50,
              name |-> "Pro Bot"]
        ELSE INITIAL_AI_STRATEGY
  IN  [s EXCEPT !.replaced = TRUE,
                !.gameState = [@ EXCEPT !.mode = mode, !.aiStrategy = strategy,
                                        !.score = NoScore, !.gameResult = "null",
                                        !.commentary =
                                          IF mode = "PRO"
                                          THEN "Pro mode selected. Prepare yourself."
                                          ELSE "Rookie mode. Perfect for practice.",
                                        !.isPlaying = FALSE]]

comments(scorer) ==
  IF scorer = "player" THEN <<"Nice shot!", "What a goal!", "You're on fire!">>
  ELSE <<"AI scores!", "Better luck next time.", "Defense needed!">>

\* handleScoreUpdate of App.tsx asking for a strategy at every goal that
\* decides nothing, whatever the mode.
handleScoreUpdate_App_anyMode(s, seen, newPlayerScore, newAiScore, scorer, rand) ==
  LET upd == [s EXCEPT !.gameState.score = [player |-> newPlayerScore, ai |-> newAiScore]]
  IN  IF newPlayerScore >= WIN_SCORE \/ newAiScore >= WIN_SCORE
      THEN [upd EXCEPT !.gameState.isPlaying = FALSE,
                       !.gameState.gameResult =
                         IF newPlayerScore >= WIN_SCORE THEN "WIN" ELSE "LOSS",
                       !.gameState.commentary =
                         IF newPlayerScore >= WIN_SCORE
                         THEN "VICTORY! You dominated the ice!"
                         ELSE "DEFEAT! The AI was superior today."]
      ELSE [upd EXCEPT !.loadingAI = TRUE,
                       !.requests =
                         Append(@, Request("trigger", newPlayerScore, newAiScore,
                                           seen.commentary,
                                           IF scorer = "player" THEN "GOAL_PLAYER"
                                           ELSE "GOAL_AI"))]

\* handleScoreUpdate of App.tsx; rand is Math.random().
handleScoreUpdate_App(s, seen, newPlayerScore, newAiScore, scorer, rand) ==
  LET upd == [s EXCEPT !.gameState.score = [player |-> newPlayerScore, ai |-> newAiScore]]
  IN  IF newPlayerScore >= WIN_SCORE \/ newAiScore >= WIN_SCORE
      THEN [upd EXCEPT !.gameState.isPlaying = FALSE,
                       !.gameState.gameResult =
                         IF newPlayerScore >= WIN_SCORE THEN "WIN" ELSE "LOSS",
                       !.gameState.commentary =
                         IF newPlayerScore >= WIN_SCORE
                         THEN "VICTORY! You dominated the ice!"
                         ELSE "DEFEAT! The AI was superior today."]
      ELSE IF seen.mode = "GEMINI_ADAPTIVE"
      THEN triggerGeminiUpdate(upd, seen, newPlayerScore, newAiScore,
                               IF scorer = "player" THEN "GOAL_PLAYER" ELSE "GOAL_AI")
      ELSE [upd EXCEPT !.gameState.commentary =
                         comments(scorer)[(rand * Len(comments(scorer))) \div ONE + 1]]

\* handleScoreUpdate of part_000 up to its await.
handleScoreUpdate_part(s, seen, newPlayerScore, newAiScore, scorer) ==
  LET upd == [s EXCEPT !.gameState.score = [player |-> newPlayerScore, ai |-> newAiScore]]
  IN  IF newPlayerScore >= WIN_SCORE \/ newAiScore >= WIN_SCORE
      THEN [upd EXCEPT !.gameState.isPlaying = FALSE,
                       !.gameState.gameResult =
                         IF newPlayerScore >= WIN_SCORE THEN "WIN" ELSE "LOSS",
                       !.gameState.commentary =
                         IF newPlayerScore >= WIN_SCORE THEN "VICTORY!" ELSE "DEFEAT!"]
      ELSE [upd EXCEPT !.requests =
              Append(@, Request("score", newPlayerScore, newAiScore, seen.commentary,
                                IF scorer = "player" THEN "GOAL_PLAYER" ELSE "GOAL_AI"))]

\* The onScoreUpdate prop of the canvas.
handleScoreUpdate(a, s, seen, c, rand) ==
  IF a = "App" THEN handleScoreUpdate_App(s, seen, c.player, c.ai, c.scorer, rand)
  ELSE handleScoreUpdate_part(s, seen, c.player, c.ai, c.scorer)

\* startGame of App.tsx.
startGame_App(s, seen) ==
  LET t == IF seen.gameResult # "null" THEN setMode(s, seen, seen.mode) ELSE s
  IN  [t EXCEPT !.gameState.isPlaying = TRUE, !.gameState.isPaused = FALSE]

\* startGame of part_000 up to the await of triggerStart.
startGame_part(s) ==
  [s EXCEPT !.requests = Append(@, Request("start", 0, 0, "Match Initiated", "GAME_START"))]

togglePause(s) == [s EXCEPT !.gameState.isPaused = ~@]

\* exitToMenu of part_000.
exitToMenu(s) ==
  [s EXCEPT !.gameState.isPlaying = FALSE, !.gameState.isPaused = FALSE,
            !.gameState.gameResult = "null", !.gameState.score = NoScore,
            !.gameState.commentary = "Select a challenge."]

\* ------------------------- the advisory service (geminiService.ts, part_001)

\* What a request can meet: a JSON text that parses to a payload, a failed
\* call, a response without text, a text that does not parse, a client
\* constructor that throws for want of a key.
Outcome(kind, payload) == [kind |-> kind, payload |-> payload]

GeminiResponse(commentary, aiSpeed, aiAggression, aiReactionDelay) ==
  [commentary |-> commentary, aiSpeed |-> aiSpeed, aiAggression |-> aiAggression,
   aiReactionDelay |-> aiReactionDelay]

Resolved(data) == [rejected |-> FALSE, data |-> data]

Rejected == [rejected |-> TRUE, data |-> GeminiResponse("", 0, 0, 0)]

\* fetchAIStrategy of geminiService.ts: the promise's settlement.
fetchAIStrategy_G(key, outcome) ==
  IF outcome.kind = "ctor" THEN Rejected
  ELSE IF outcome.kind = "text" THEN Resolved(outcome.payload)
  ELSE Resolved(GeminiResponse("System glitch... rebooting tactics...", ONE, 500, 100))

\* fetchAIStrategy of part_001: the promise's settlement.
fetchAIStrategy_P(key, outcome) ==
  IF ~key
  THEN Resolved(GeminiResponse("API Key missing. Using fallback logic.", ONE, 500, 100))
  ELSE IF outcome.kind = "text" THEN Resolved(outcome.payload)
  ELSE Resolved(GeminiResponse("System malfunction... rebooting strategy...", ONE, 500, 100))

fetchAIStrategy(service, key, outcome) ==
  IF service = "geminiService" THEN fetchAIStrategy_G(key, outcome)
  ELSE fetchAIStrategy_P(key, outcome)

\* A setGameState that takes the commentary of a settled strategy only.
applyStrategy_commentaryOnly(gs, data) == [gs EXCEPT !.commentary = data.commentary]

\* A setGameState that takes the commentary and the speed of a settled
\* strategy and leaves the other fields for later.
applyStrategy_torn(gs, data) ==
  [gs EXCEPT !.commentary = data.commentary,
             !.aiStrategy = [@ EXCEPT !.speedMultiplier = data.aiSpeed]]

\* A setGameState that takes the speed of a settled strategy as a factor of
\* the stored one.
applyStrategy_scaled(gs, data) ==
  [gs EXCEPT !.commentary = data.commentary,
             !.aiStrategy = [@ EXCEPT !.speedMultiplier = Mul(@, data.aiSpeed),
                                      !.aggression = data.aiAggression,
                                      !.reactionTime = data.aiReactionDelay]]

\* The setGameState that applies a settled strategy.
applyStrategy(gs, data) ==
  [gs EXCEPT !.commentary = data.commentary,
             !.aiStrategy = [@ EXCEPT !.speedMultiplier = data.aiSpeed,
                                      !.aggression = data.aiAggression,
                                      !.reactionTime = data.aiReactionDelay]]

\* An await whose caller drops a response that was asked for at another score.
afterAwait_fresh(s, req, result) ==
  LET t == IF result.rejected
              \/ s.gameState.score # [player |-> req.playerScore, ai |-> req.aiScore]
           THEN s
           ELSE [s EXCEPT !.replaced = TRUE, !.gameState = applyStrategy(@, result.data)]
  IN  IF req.origin = "trigger"
      THEN IF result.rejected THEN s ELSE [t EXCEPT !.loadingAI = FALSE]
      ELSE IF req.origin = "score" THEN t
      ELSE [t EXCEPT !.gameState.isPlaying = TRUE, !.gameState.isPaused = FALSE,
                     !.gameState.gameResult = "null"]

\* What follows the await in the caller of fetchAIStrategy, by caller:
\* triggerGeminiUpdate of App.tsx, handleScoreUpdate and triggerStart of
\* part_000.
afterAwait(s, req, result) ==
  IF req.origin = "trigger"
  THEN IF result.rejected THEN s
       ELSE [s EXCEPT !.loadingAI = FALSE, !.replaced = TRUE,
                      !.gameState = applyStrategy(@, result.data)]
  ELSE IF req.origin = "score"
  THEN IF result.rejected THEN s
       ELSE [s EXCEPT !.replaced = TRUE, !.gameState = applyStrategy(@, result.data)]
  ELSE LET t == IF result.rejected THEN s
                ELSE [s EXCEPT !.replaced = TRUE,
                               !.gameState = applyStrategy(@, result.data)]
       IN  [t EXCEPT !.gameState.isPlaying = TRUE, !.gameState.isPaused = FALSE,
                     !.gameState.gameResult = "null"]

\* ------------------------------------------------------------------ bounds

\* Frame callbacks per run, environment events (pointer samples, irregular
\* frame gaps, user actions, settled requests) per run, and frame callbacks
\* of the end-to-end run.
MaxFrames == 5
MaxEvents == 2
MaxTicks == 64

\* ------------------------------------------------------------------- state

VARIABLES
  setup,        \* the build and its environment: which canvas ("A", "B",
                \* "C"), App, service, whether an API key is set, the
                \* display's frame interval in ms
  puck, player, ai,       \* the three Entity refs
  isResetting,  \* isResetting.current
  inputTarget,  \* inputTarget.current / inputRef.current
  timers,       \* pending setTimeout callbacks of the reset, oldest first
  goalOverlay,  \* the goalOverlay state of the canvas
  lastTimeRef,  \* lastTimeRef.current, ms
  requestRef,   \* the frame callbacks that are pending (requested, not yet run or
                \* cancelled); requestRef.current names the one requested last
  now,          \* the timestamp of the latest frame callback, ms
  gameState,    \* the App's gameState
  loadingAI,    \* the loadingAI state of App.tsx
  closure,      \* the gameState the scheduled update closure captured
  requests,     \* calls of fetchAIStrategy that have not settled
  settled,      \* the request settled last, how, and the state it met
  calls,        \* the onScoreUpdate calls of the latest frame callback
  steps,        \* the puck at the end of each sub-step of the latest callback
  scn, frames, events     \* the scenario, and what the run has used

canvasVars == <<puck, player, ai, isResetting, inputTarget, timers, goalOverlay>>

appVars == <<gameState, loadingAI, closure, requests, settled>>

vars == <<setup, puck, player, ai, isResetting, inputTarget, timers,
          goalOverlay, lastTimeRef, requestRef, now, gameState, loadingAI, closure,
          requests, settled, calls, steps, scn, frames, events>>

variant == setup.canvas

\* The refs of the canvas as one record, for the operators above.
World ==
  [puck |-> puck, player |-> player, ai |-> ai, isResetting |-> isResetting,
   inputTarget |-> inputTarget, timers |-> timers, goalOverlay |-> goalOverlay,
   calls |-> <<>>, steps |-> <<>>, dt |-> 0]

SetWorld(w) ==
  /\ puck' = w.puck
  /\ player' = w.player
  /\ ai' = w.ai
  /\ isResetting' = w.isResetting
  /\ inputTarget' = w.inputTarget
  /\ timers' = w.timers
  /\ goalOverlay' = w.goalOverlay
  /\ calls' = w.calls
  /\ steps' = w.steps

\* The App as the handlers see it.
App == AppState(gameState, requests, loadingAI)

\* requestAnimationFrame(update) with n callbacks pending.
requestAnimationFrame(n) == n + 1

\* cancelAnimationFrame(requestRef.current) with n callbacks pending: the
\* callback requested last is dropped if it has not run yet.
cancelAnimationFrame(n) == IF n > 0 THEN n - 1 ELSE 0

\* The effect run again with its cleanup left out.
useEffect_noCleanup(n) == requestAnimationFrame(n)

\* The canvas effect run again: the cleanup of the previous run, then the
\* effect.
useEffect_loop(n) == requestAnimationFrame(cancelAnimationFrame(n))

\* The render with goalOverlay left out of the effect's dependencies.
Render_withoutOverlay(s, overlay, n) ==
  LET changed == \/ s.replaced
                 \/ s.gameState.isPlaying # gameState.isPlaying
                 \/ s.gameState.isPaused # gameState.isPaused
  IN  /\ gameState' = s.gameState
      /\ requests' = s.requests
      /\ loadingAI' = s.loadingAI
      /\ closure' = IF changed THEN s.gameState ELSE closure
      /\ requestRef' = IF changed THEN useEffect_loop(n) ELSE n

\* The render after a handler that leaves n frame callbacks pending: the
\* state is stored, and the canvas effect reschedules update, with the new
\* gameState in its closure, when one of its dependencies (isPlaying,
\* isPaused, the aiStrategy object, goalOverlay) changed.
Render(s, overlay, n) ==
  LET changed == \/ s.replaced
                 \/ s.gameState.isPlaying # gameState.isPlaying
                 \/ s.gameState.isPaused # gameState.isPaused
                 \/ overlay # goalOverlay
  IN  /\ gameState' = s.gameState
      /\ requests' = s.requests
      /\ loadingAI' = s.loadingAI
      /\ closure' = IF changed THEN s.gameState ELSE closure
      /\ requestRef' = IF changed THEN useEffect_loop(n) ELSE n

\* Situations a run starts from (px, px per frame); a paddle y of 0 stands
\* for the paddle's anchor. The first is the state after construction.
Scenarios == <<
  [name |-> "kickoff",  puck |-> <<400, 600, 0, 0>>,     player |-> <<400, 0>>,    ai |-> <<400, 0>>],
  [name |-> "topGoal",  puck |-> <<400, -20, 0, -30>>,   player |-> <<400, 0>>,    ai |-> <<150, 0>>],
  [name |-> "botGoal",  puck |-> <<320, 1222, 6, 30>>,   player |-> <<650, 0>>,    ai |-> <<400, 0>>],
  [name |-> "squeeze",  puck |-> <<28, 900, 0, 0>>,      player |-> <<107, 905>>,  ai |-> <<400, 0>>],
  [name |-> "aiStrike", puck |-> <<400, 340, 0, -35>>,   player |-> <<400, 0>>,    ai |-> <<400, 0>>],
  [name |-> "post",     puck |-> <<290, 70, -10, -36>>,  player |-> <<400, 0>>,    ai |-> <<600, 0>>],
  [name |-> "downhill", puck |-> <<400, 600, 0, 20>>,    player |-> <<120, 0>>,    ai |-> <<400, 0>>],
  [name |-> "wallShot", puck |-> <<760, 600, 30, 0>>,    player |-> <<400, 0>>,    ai |-> <<400, 0>>],
  [name |-> "goalLine", puck |-> <<400, -28, 0, -30>>,   player |-> <<400, 0>>,    ai |-> <<150, 0>>],
  [name |-> "postPush", puck |-> <<308, 1227, -38, 7>>,  player |-> <<650, 0>>,    ai |-> <<400, 0>>] >>

\* The scenario of that name.
Scenario(name) ==
  Scenarios[CHOOSE i \in DOMAIN Scenarios : Scenarios[i].name = name]

Targets == { Target(Px(50), Px(900)), Target(Px(400), Px(640)) }

\* Frame gaps in ms: the display's frame interval, and the irregular gaps.
Cadence == 1000 \div 60 + 1
OddGaps == {-Cadence, 200}

\* Values of Math.random().
Rands == {0, 500, 999}

\* Strategy payloads the service may answer with: in range, and out of it.
Payloads ==
  { GeminiResponse("Too slow, human!", 1500, 900, 50),
    GeminiResponse("Recalibrating.", 3 * ONE, -500, 0) }

\* What a request can meet, by service and key.
Outcomes(service, key) ==
  IF ~key
  THEN IF service = "geminiService"
       THEN { Outcome("ctor", GeminiResponse("", 0, 0, 0)),
              Outcome("network", GeminiResponse("", 0, 0, 0)) }
       ELSE { Outcome("none", GeminiResponse("", 0, 0, 0)) }
  ELSE { Outcome("text", p) : p \in Payloads }
       \cup { Outcome(k, GeminiResponse("", 0, 0, 0)) : k \in {"network", "empty", "malformed"} }

NotSettled ==
  [n |-> 0, origin |-> "none", kind |-> "none", rejected |-> FALSE,
   data |-> GeminiResponse("", 0, 0, 0), frames |-> 0,
   aiStrategy |-> INITIAL_AI_STRATEGY, commentary |-> ""]

\* The canvas refs of the situation s, the App as c gives it. A paddle is
\* given as <<x, y>> (y = 0: its anchor row) at rest, or with its velocity as
\* <<x, y, vx, vy>>; the puck as <<x, y, vx, vy>>, or as <<x, y, vx, vy, n>>
\* for a velocity of (vx / n, vy / n).
StartAt(c, s) ==
  /\ setup = [canvas |-> c.canvas, app |-> c.app, service |-> c.service,
              apiKey |-> c.apiKey, cadence |-> c.cadence]
  /\ scn = c.scn
  /\ LET py == IF s.player[2] = 0 THEN H - Anchor(c.canvas) ELSE Px(s.player[2])
         ay == IF s.ai[2] = 0 THEN Anchor(c.canvas) ELSE Px(s.ai[2])
         pv == IF Len(s.player) = 4 THEN <<Px(s.player[3]), Px(s.player[4])>> ELSE <<0, 0>>
         n  == IF Len(s.puck) = 5 THEN s.puck[5] ELSE 1
     IN  /\ puck = [Entity(Px(s.puck[1]), Px(s.puck[2]), Px(PUCK_RADIUS), PUCK_MASS)
                      EXCEPT !.vx = TDiv(Px(s.puck[3]), n), !.vy = TDiv(Px(s.puck[4]), n)]
         /\ player = [Entity(Px(s.player[1]), py, Px(PADDLE_RADIUS), PADDLE_MASS)
                        EXCEPT !.vx = pv[1], !.vy = pv[2]]
         /\ ai = Entity(Px(s.ai[1]), ay, Px(PADDLE_RADIUS), PADDLE_MASS)
         /\ inputTarget = IF s.player[1] = 400 THEN NoTarget
                          ELSE Target(Px(s.player[1]), py)
  /\ isResetting = FALSE
  /\ timers = <<>>
  /\ goalOverlay = "null"
  /\ lastTimeRef = 0
  /\ requestRef = 1
  /\ now = 100
  /\ gameState = c.gameState
  /\ loadingAI = FALSE
  /\ closure = gameState
  /\ requests = <<>>
  /\ settled = NotSettled
  /\ calls = <<>>
  /\ steps = <<>>
  /\ frames = 0
  /\ events = 0

\* A run's start: the canvas refs of scenario c.scn, the App as c gives it.
Start(c) == StartAt(c, Scenario(c.scn))

\* A match under way: the App's state after a mode was chosen and START
\* pressed, with the given score.
Playing(a, mode, strategy, p, s) ==
  [InitialGameState(a) EXCEPT !.isPlaying = TRUE, !.mode = mode,
                              !.aiStrategy = strategy,
                              !.score = [player |-> p, ai |-> s],
                              !.commentary = "Game Reset. Good luck!"]

RookieBot ==
  [INITIAL_AI_STRATEGY EXCEPT !.speedMultiplier = 600, !.aggression = 200,
                              !.name = "Rookie Bot"]

GeminiAI(p) ==
  [speedMultiplier |-> p.aiSpeed, aggression |-> p.aiAggression,
   reactionTime |-> p.aiReactionDelay, name |-> "Gemini AI"]

Config(canvas, a, service, key, cadence, s, gs) ==
  [canvas |-> canvas, app |-> a, service |-> service, apiKey |-> key,
   cadence |-> cadence, scn |-> s, gameState |-> gs]

\* Matches under way on each canvas, from each physical situation.
PlayConfigs ==
  { Config(v, "App", "geminiService", TRUE, Cadence, s,
           IF s \in {"topGoal", "squeeze", "post", "wallShot", "goalLine"}
           THEN Playing("App", "ROOKIE", RookieBot, 0, 0)
           ELSE Playing("App", "GEMINI_ADAPTIVE",
                        GeminiAI(GeminiResponse("", 3 * ONE, -500, 0)), 2, 1)) :
      v \in {"A", "B", "C"},
      s \in {"kickoff", "topGoal", "botGoal", "squeeze", "aiStrike", "post", "wallShot", "goalLine", "postPush"} }
  \cup
  { Config(v, "App", "geminiService", TRUE, Cadence, "kickoff",
           [Playing("App", "ROOKIE", RookieBot, 0, 0) EXCEPT !.isPaused = TRUE]) :
      v \in {"B"} }

Init == \E c \in PlayConfigs : Start(c)

RECURSIVE deliver(_, _, _, _)
\* The onScoreUpdate calls of a frame callback reach the App.
deliver(s, seen, cs, rand) ==
  IF cs = <<>> THEN s
  ELSE deliver(handleScoreUpdate(setup.app, s, seen, Head(cs), rand), seen, Tail(cs), rand)

\* update(time) without its return for a match that is paused or not on.
Update_running(gap) ==
  LET time == now + gap
      dt == deltaTime(variant, time, lastTimeRef)
  IN  /\ now' = time
      /\ requestRef > 0
      /\ frames' = frames + 1
      /\ IF lastTimeRef = 0
         THEN /\ lastTimeRef' = time
              /\ calls' = <<>> /\ steps' = <<>>
              /\ requestRef' = requestAnimationFrame(requestRef - 1)
              /\ UNCHANGED <<canvasVars, appVars>>
         ELSE /\ lastTimeRef' = time
              /\ \E w \in {simulate(variant, World, dt, closure)} :
                   /\ SetWorld(w)
                   /\ \E rand \in IF w.calls = <<>> THEN {0} ELSE Rands :
                        Render(deliver(App, closure, w.calls, rand), w.goalOverlay,
                               requestAnimationFrame(requestRef - 1))
              /\ UNCHANGED settled

\* update(time) of the canvas the run uses, time = now + gap, and the render
\* its onScoreUpdate calls cause.
Update(gap) ==
  LET time == now + gap
      dt == deltaTime(variant, time, lastTimeRef)
  IN  /\ now' = time
      /\ requestRef > 0
      /\ frames' = frames + 1
      /\ IF ~closure.isPlaying \/ closure.isPaused
         THEN /\ lastTimeRef' = 0
              /\ calls' = <<>> /\ steps' = <<>>
              /\ requestRef' = requestAnimationFrame(requestRef - 1)
              /\ UNCHANGED <<canvasVars, appVars>>
         ELSE IF lastTimeRef = 0
         THEN /\ lastTimeRef' = time
              /\ calls' = <<>> /\ steps' = <<>>
              /\ requestRef' = requestAnimationFrame(requestRef - 1)
              /\ UNCHANGED <<canvasVars, appVars>>
         ELSE /\ lastTimeRef' = time
              /\ \E w \in {simulate(variant, World, dt, closure)} :
                   /\ SetWorld(w)
                   /\ \E rand \in IF w.calls = <<>> THEN {0} ELSE Rands :
                        Render(deliver(App, closure, w.calls, rand), w.goalOverlay,
                               requestAnimationFrame(requestRef - 1))
              /\ UNCHANGED settled

\* A frame callback, at the display's interval or after an irregular gap.
Frame ==
  /\ frames < MaxFrames
  /\ \E gap \in {setup.cadence} \cup OddGaps :
       /\ gap # setup.cadence => events < MaxEvents
       /\ events' = events + (IF gap # setup.cadence THEN 1 ELSE 0)
       /\ Update(gap)
  /\ UNCHANGED <<setup, scn>>

\* handleInput: a pointer or touch sample, already in simulation coordinates.
Pointer ==
  /\ events < MaxEvents
  /\ events' = events + 1
  /\ \E t \in Targets : inputTarget' = t
  /\ UNCHANGED <<setup, puck, player, ai, isResetting, timers, goalOverlay,
                 lastTimeRef, now, appVars, calls, steps, scn, frames, requestRef>>

\* The oldest pending reset timer expires.
TimerFire ==
  /\ timers # <<>>
  /\ \E rand \in Rands :
       LET w == serve(variant, [World EXCEPT !.timers = Tail(timers)], Head(timers).scorer, rand)
       IN  /\ puck' = w.puck
           /\ isResetting' = w.isResetting
           /\ goalOverlay' = w.goalOverlay
           /\ timers' = w.timers
           /\ Render(App, w.goalOverlay, requestRef)
  /\ UNCHANGED <<setup, player, ai, inputTarget, lastTimeRef, now, settled,
                 calls, steps, scn, frames, events>>

Next == Frame \/ Pointer \/ TimerFire

Spec == Init /\ [][Next]_vars

\* ----------------------------------------------------------------- claims

\* The sub-steps of the latest frame callback in which a goal was detected.
GoalSteps == { i \in DOMAIN steps : ~steps[i].before /\ steps[i].isResetting }

\* The puck of an onScoreUpdate call lay beyond the top, or the bottom.
BeyondTop(c) ==
  c.puck.y < -c.puck.radius /\ c.puck.x > GOAL_LEFT_X /\ c.puck.x < GOAL_RIGHT_X

BeyondBottom(c) ==
  c.puck.y > H + c.puck.radius /\ c.puck.x > GOAL_LEFT_X /\ c.puck.x < GOAL_RIGHT_X

\* C1: every goal detected in a sub-step is signalled by exactly one
\* onScoreUpdate call, made before the reset (the resetting flag still clear,
\* no reset timer armed, the puck still where it crossed the line); the
\* remaining sub-steps of the tick and the ticks that start while RESETTING
\* make no call.
C1_OneSignalBeforeReset ==
  /\ Len(calls) = Cardinality(GoalSteps)
  /\ Len(calls) <= 1
  /\ \A i \in DOMAIN calls :
       /\ ~calls[i].resetting
       /\ calls[i].timers = 0
       /\ BeyondTop(calls[i]) \/ BeyondBottom(calls[i])
  /\ (steps # <<>> /\ steps[1].before) => calls = <<>>

\* A goal was signalled in a tick that had sub-steps left to run.
C1_Witness ==
  /\ Len(calls) = 1
  /\ \E i \in DOMAIN steps : steps[i].before /\ steps[i].isResetting

\* C2 as stated: a puck beyond the top boundary inside the goal mouth makes
\* onScoreUpdate report the AI's score incremented by one and the player's
\* score unchanged, and the phase RESETTING.
C2_TopCrossingCreditsAI ==
  \A i \in DOMAIN calls :
    BeyondTop(calls[i]) =>
      /\ calls[i].ai = calls[i].seen.ai + 1
      /\ calls[i].player = calls[i].seen.player
      /\ GoalSteps # {}

\* C2 amended: a puck beyond the top boundary inside the goal mouth makes
\* onScoreUpdate report the player's score incremented by one and the AI's
\* score unchanged, with scorer 'player', and the phase becomes RESETTING in
\* that sub-step.
C2_TopCrossingCreditsPlayer ==
  \A i \in DOMAIN calls :
    BeyondTop(calls[i]) =>
      /\ calls[i].player = calls[i].seen.player + 1
      /\ calls[i].ai = calls[i].seen.ai
      /\ calls[i].scorer = "player"
      /\ GoalSteps # {}

\* The puck crossed the top boundary in the goal mouth and was signalled.
C2_Witness == \E i \in DOMAIN calls : BeyondTop(calls[i])

\* The canonical start of canvas v: puck at rink centre, each paddle at its
\* own-half anchor, nothing moving.
AtStart(v, pk, pl, a) ==
  /\ pk.x = TDiv(W, 2) /\ pk.y = TDiv(H, 2) /\ pk.vx = 0 /\ pk.vy = 0
  /\ pl.x = TDiv(W, 2) /\ pl.y = H - Anchor(v) /\ pl.vx = 0 /\ pl.vy = 0
  /\ a.x = TDiv(W, 2) /\ a.y = Anchor(v) /\ a.vx = 0 /\ a.vy = 0

\* C4: from the sub-step that handles a goal to the end of that tick, and
\* for as long as the phase is RESETTING afterwards, the puck and both
\* paddles are at their canonical start positions with zero velocity.
C4_ResetIsCanonical ==
  /\ \A i \in DOMAIN steps :
       steps[i].isResetting =>
         AtStart(variant, steps[i].puck, steps[i].player, steps[i].ai)
  /\ (calls # <<>> /\ isResetting) => AtStart(variant, puck, player, ai)

\* A goal was handled in a tick whose paddles had left their anchors.
C4_Witness ==
  /\ calls # <<>> /\ isResetting
  /\ \E i \in DOMAIN steps :
       /\ ~steps[i].isResetting
       /\ steps[i].player.x # TDiv(W, 2)
       /\ steps[i].ai.x # TDiv(W, 2)

\* The frame loop with a reset timer that, once armed, does expire.
SpecServe == Init /\ [][Next]_vars /\ WF_vars(TimerFire)

\* The serve that ends a RESETTING phase is nonzero and its vertical
\* component points at the goal of the side that conceded: up the rink
\* (negative y) after the player scored, down it after the AI scored.
ServedAtConceder ==
  [][(isResetting /\ ~isResetting') =>
       /\ puck'.vx # 0 \/ puck'.vy # 0
       /\ Head(timers).scorer = "player" => puck'.vy < 0
       /\ Head(timers).scorer = "ai" => puck'.vy > 0]_vars

\* C5: every RESETTING phase eventually ends, and the puck then has a
\* nonzero velocity whose vertical component is directed toward the side
\* that conceded the goal.
C5_ServeTowardConceder == (isResetting ~> ~isResetting) /\ ServedAtConceder

\* C6: a tick that starts while the phase is RESETTING leaves the puck and
\* both paddles (positions and velocities) as they were, pointer input or not.
C6_ResettingTickFreezes ==
  [][(isResetting /\ frames' # frames) =>
       (puck' = puck /\ player' = player /\ ai' = ai)]_vars

\* A tick ran its sub-steps while RESETTING with a pointer target set.
C6_Witness ==
  /\ isResetting /\ inputTarget.set
  /\ steps # <<>> /\ steps[1].before

\* What the comparisons below allow for the rounding of the arithmetic:
\* a hundredth of a pixel.
Tol == ONE \div 100

\* C7: at the end of every sub-step the puck's speed is at most MAX_SPEED.
C7_SpeedCapped ==
  \A i \in DOMAIN steps :
    Hypot(steps[i].puck.vx, steps[i].puck.vy) <= Px(MAX_SPEED) + Tol

\* The paddle e lies in the rink and between the lines minY and maxY.
Bounded(e, minY, maxY) ==
  /\ e.x >= e.radius /\ e.x <= W - e.radius
  /\ e.y >= minY + e.radius /\ e.y <= maxY - e.radius

\* C8: at the end of every tick each paddle lies inside the rink and its own
\* half (the player below the centre line, the AI above it), whatever the
\* pointer target and the numeric AI strategy; and the sub-steps of a tick,
\* where the collisions are resolved, leave both paddles' positions alone.
C8_PaddlesInOwnHalf ==
  /\ Bounded(player, TDiv(H, 2), H)
  /\ Bounded(ai, 0, TDiv(H, 2))
  /\ \A i \in DOMAIN steps :
       /\ Bounded(steps[i].player, TDiv(H, 2), H)
       /\ Bounded(steps[i].ai, 0, TDiv(H, 2))
       /\ steps[i].isResetting = steps[Len(steps)].isResetting =>
            /\ steps[i].player.x = steps[Len(steps)].player.x
            /\ steps[i].player.y = steps[Len(steps)].player.y
            /\ steps[i].ai.x = steps[Len(steps)].ai.x
            /\ steps[i].ai.y = steps[Len(steps)].ai.y

\* The player's paddle was stopped at the centre line short of its target,
\* in a tick whose sub-steps ran with the puck in play.
C8_Witness ==
  /\ inputTarget.set /\ inputTarget.y < player.y
  /\ player.y = TDiv(H, 2) + player.radius
  /\ steps # <<>>
  /\ \E i \in DOMAIN steps : ~steps[i].isResetting

\* The puck p of canvas v overlaps no wall and no goal post.
ClearOfWalls(v, p) ==
  /\ p.x >= p.radius - Tol /\ p.x <= W - p.radius + Tol
  /\ (p.x < GOAL_LEFT_X \/ p.x > GOAL_RIGHT_X) =>
       (p.y >= p.radius - Tol /\ p.y <= H - p.radius + Tol)
  /\ \A k \in DOMAIN posts :
       Hypot(p.x - posts[k].x, p.y - posts[k].y) >= p.radius + PostRadius(v) - Tol

\* C9: at the end of every sub-step, the paddle collisions' positional
\* correction included, the puck overlaps neither a wall nor a goal post.
C9_PuckClearOfWalls ==
  \A i \in DOMAIN steps : ClearOfWalls(variant, steps[i].puck)

\* ------------------------------------------------ the App and the service

ProBot ==
  [speedMultiplier |-> 1150, aggression |-> 900, reactionTime |-> 50, name |-> "Pro Bot"]

\* Each App with each service, with and without a key: at the menu after
\* construction, and in a match one sub-step from a goal; App.tsx also in a
\* ROOKIE match one sub-step from a goal.
AppConfigs ==
  { Config(IF a = "App" THEN "A" ELSE "C", a, service, key, Cadence, "kickoff",
           InitialGameState(a)) :
      a \in {"App", "part_000"}, service \in {"geminiService", "part_001"},
      key \in BOOLEAN }
  \cup
  { Config(IF a = "App" THEN "B" ELSE "C", a, service, key, Cadence, s,
           IF a = "App"
           THEN Playing(a, "GEMINI_ADAPTIVE",
                        GeminiAI(GeminiResponse("", 1500, 900, 50)),
                        IF s = "topGoal" THEN 0 ELSE 3, IF s = "topGoal" THEN 0 ELSE 6)
           ELSE Playing(a, "PRO", ProBot,
                        IF s = "topGoal" THEN 6 ELSE 1, IF s = "topGoal" THEN 2 ELSE 1)) :
      a \in {"App", "part_000"}, service \in {"geminiService", "part_001"},
      key \in BOOLEAN, s \in {"topGoal", "botGoal"} }
  \cup
  { Config("B", "App", "geminiService", TRUE, Cadence, s,
           Playing("App", "ROOKIE", RookieBot, 0, 0)) : s \in {"topGoal"} }

InitApp == \E c \in AppConfigs : Start(c)

GameModes(a) ==
  IF a = "App" THEN {"ROOKIE", "PRO", "GEMINI_ADAPTIVE"} ELSE {"ROOKIE", "PRO"}

\* A user action: its handler h runs on the App, then the render.
Click(h) ==
  /\ events < MaxEvents
  /\ events' = events + 1
  /\ Render(h, goalOverlay, requestRef)
  /\ UNCHANGED <<setup, canvasVars, lastTimeRef, now, settled, calls, steps, scn, frames>>

\* A mode button of the menu overlay.
SetMode ==
  /\ ~gameState.isPlaying /\ gameState.gameResult = "null"
  /\ \E mode \in GameModes(setup.app) :
       Click(IF setup.app = "App" THEN setMode(App, gameState, mode)
             ELSE selectMode(App, mode))

\* The header button while no match is under way.
StartGame ==
  /\ ~gameState.isPlaying
  /\ Click(IF setup.app = "App" THEN startGame_App(App, gameState)
           ELSE startGame_part(App))

\* The header button during a match.
TogglePause ==
  /\ gameState.isPlaying
  /\ Click(togglePause(App))

\* EXIT in the header of part_000 during a match, CONTINUE after one.
ExitToMenu ==
  /\ setup.app = "part_000"
  /\ gameState.isPlaying \/ gameState.gameResult # "null"
  /\ Click(exitToMenu(App))

Without(q, i) == [k \in 1..(Len(q) - 1) |-> IF k < i THEN q[k] ELSE q[k + 1]]

\* A request in flight settles, in any order, and its caller resumes.
Settle ==
  /\ requests # <<>>
  /\ \E i \in 1..Len(requests), o \in Outcomes(setup.service, setup.apiKey) :
       \E result \in {fetchAIStrategy(setup.service, setup.apiKey, o)} :
         /\ Render(afterAwait([App EXCEPT !.requests = Without(requests, i)],
                              requests[i], result), goalOverlay, requestRef)
         /\ settled' = [n |-> settled.n + 1, origin |-> requests[i].origin,
                        kind |-> o.kind, rejected |-> result.rejected,
                        data |-> result.data, frames |-> frames,
                        aiStrategy |-> gameState.aiStrategy,
                        commentary |-> gameState.commentary]
  /\ UNCHANGED <<setup, canvasVars, lastTimeRef, now, calls, steps, scn, frames, events>>

NextApp ==
  Frame \/ TimerFire \/ SetMode \/ StartGame \/ TogglePause \/ ExitToMenu \/ Settle

SpecApp == InitApp /\ [][NextApp]_vars

\* ------------------------------------------------------ the end-to-end run

\* The display's frame interval, ms: 60 Hz, 30 Hz, 20 Hz.
Cadences == {17, 33, 50}

GoalConfigs ==
  { Config(v, "App", "geminiService", TRUE, c, "downhill",
           Playing("App", "ROOKIE", RookieBot, 0, 0)) :
      v \in {"A", "B", "C"}, c \in Cadences }

InitGoal == \E c \in GoalConfigs : Start(c)

\* A frame callback at the display's interval, until a goal is registered.
Tick ==
  /\ frames < MaxTicks
  /\ gameState.score = NoScore
  /\ Update(setup.cadence)
  /\ UNCHANGED <<setup, scn, events>>

NextGoal == Tick \/ TimerFire

SpecGoal == InitGoal /\ [][NextGoal]_vars

\* The ways a strategy request fails: the client constructor throws, the
\* call throws, the response has no text, the text is not JSON, there is no
\* key to call with.
FailureKinds == {"ctor", "network", "empty", "malformed", "none"}

\* The commentary of the fallback each service returns from its failures.
StockLines ==
  { "System glitch... rebooting tactics...",
    "System malfunction... rebooting strategy...",
    "API Key missing. Using fallback logic." }

\* A request that failed has just settled.
FailedSettle == settled'.n # settled.n /\ settled'.kind \in FailureKinds

\* C10 as stated: when a strategy request fails, the stored AIStrategy and
\* the commentary are what they were.
C10_FailureKeepsStrategy ==
  [][FailedSettle =>
       /\ gameState'.aiStrategy = gameState.aiStrategy
       /\ gameState'.commentary = gameState.commentary]_vars

\* C10 amended: a request that fails inside fetchAIStrategy resolves with
\* the service's fallback, and the stored AIStrategy then has speedMultiplier
\* 1.0, aggression 0.5 and reactionTime 0.1 under its old name, and the
\* commentary is the service's stock line; only a request whose promise
\* rejects leaves the stored AIStrategy and the commentary as they were.
C10_FailureSubstitutesDefault ==
  [][FailedSettle =>
       IF settled'.rejected
       THEN /\ gameState'.aiStrategy = gameState.aiStrategy
            /\ gameState'.commentary = gameState.commentary
       ELSE /\ gameState'.aiStrategy =
                 [gameState.aiStrategy EXCEPT !.speedMultiplier = ONE,
                                              !.aggression = ONE \div 2,
                                              !.reactionTime = ONE \div 10]
            /\ gameState'.commentary \in StockLines]_vars

\* A request failed on the network while a strategy other than the default
\* was stored, and the default took its place.
C10_Witness ==
  /\ settled.kind = "network" /\ ~settled.rejected
  /\ settled.aiStrategy.speedMultiplier # ONE
  /\ gameState.aiStrategy.speedMultiplier = ONE
  /\ gameState.commentary \in StockLines
  /\ settled.commentary \notin StockLines

\* Ticks enough for the 20 px/tick puck to cover the half rink and its own
\* radius at four fifths of its speed, and one tick to start the clock.
TickBound == (TDiv(H, 2) + Px(PUCK_RADIUS)) \div Px(16) + 1

\* C3: with the puck at the centre moving straight down at 20 and no paddle
\* in its path, a goal is signalled within TickBound ticks; the signal
\* carries the AI's score raised from 0 to 1 and the player's score 0, and
\* the App's score becomes 0-1.
C3_DownhillGoal ==
  /\ gameState.score = NoScore => (frames < TickBound /\ (frames > 1 => puck.vy > 0))
  /\ gameState.score \in {NoScore, [player |-> 0, ai |-> 1]}
  /\ \A i \in DOMAIN calls :
       calls[i].player = 0 /\ calls[i].ai = 1 /\ calls[i].scorer = "ai"

\* The goal was signalled and the App shows 0-1.
C3_Witness ==
  /\ gameState.score = [player |-> 0, ai |-> 1]
  /\ Len(calls) = 1 /\ BeyondBottom(calls[1])

\* C11: fetchAIStrategy never rejects: a request that met a failure (no
\* key, a throwing client constructor, a failed call, an empty or malformed
\* response) settles resolved, with aiSpeed 1.0, aiAggression 0.5,
\* aiReactionDelay 0.1 and a stock commentary.
C11_FetchNeverRejects ==
  (settled.n > 0 /\ settled.kind \in FailureKinds) =>
    /\ ~settled.rejected
    /\ settled.data.aiSpeed = ONE
    /\ settled.data.aiAggression = ONE \div 2
    /\ settled.data.aiReactionDelay = ONE \div 10
    /\ settled.data.commentary \in StockLines

\* No match is being simulated: none is on, or the one that is on is paused.
Idle == ~gameState.isPlaying \/ gameState.isPaused

\* C12: while isPlaying is false or isPaused is true every frame callback
\* requests the next one (the chain of callbacks goes on) and changes no
\* entity's position or velocity, nor the phase, and calls no onScoreUpdate.
C12_IdleFramesFreeze ==
  [][(Idle /\ frames' # frames) =>
       /\ requestRef' > 0
       /\ UNCHANGED <<puck, player, ai, isResetting>>
       /\ calls' = <<>>]_vars

\* A frame callback ran in a paused match whose puck was in flight.
C12_Witness ==
  /\ gameState.isPlaying /\ gameState.isPaused
  /\ frames > 1 /\ lastTimeRef = 0
  /\ puck.vy # 0 /\ ~isResetting

\* C13: after any period of pause or not-playing, the first frame callback once
\* play resumes only records its timestamp and advances nothing, and the
\* following tick measures its delta from that callback. update() does so
\* exactly when lastTimeRef is 0 as it runs, so at the step that resumes play
\* no timestamp taken before or during the pause may be left in lastTimeRef.
C13_ResumeRestartsClock ==
  [][(Idle /\ ~Idle') => lastTimeRef' = 0]_vars

\* C14 as stated: the delta of every tick lies in [0, 3] nominal frames, and
\* the sub-step delta is that value divided by the sub-step count.
C14_DtWithinThree ==
  \A i \in DOMAIN steps :
    /\ 0 <= steps[i].dt /\ steps[i].dt <= 3 * ONE
    /\ steps[i].stepDt = TDiv(steps[i].dt, SubSteps(variant))

\* C14: the delta of every tick lies in [0, 3] nominal frames, [0, 4] in the
\* first canvas of GameCanvas.tsx, whatever the callback timestamps (long
\* gaps, timestamps that go back), and the sub-step delta is that value
\* divided by the canvas's sub-step count.
C14_DtClamped ==
  \A i \in DOMAIN steps :
    /\ 0 <= steps[i].dt /\ steps[i].dt <= Px(MaxDt(variant))
    /\ steps[i].stepDt = TDiv(steps[i].dt, SubSteps(variant))

\* A tick of the first canvas of GameCanvas.tsx after a long gap: its delta is
\* the upper clamp, 4 frames.
C14_Witness ==
  /\ variant = "A" /\ steps # <<>>
  /\ now - 200 >= 100
  /\ steps[1].dt = 4 * ONE

\* ------------------------------------------------------------- the rematch

\* part_000 built without an API key, on a slow display, one sub-step from
\* the goal that ends a match at 7-2, or from a goal that makes it 5-2.
RematchConfigs ==
  { Config("C", "part_000", "geminiService", FALSE, c, "topGoal",
           Playing("part_000", "PRO", ProBot, p, 2)) : c \in {50}, p \in {6, 4} }

InitRematch == \E c \in RematchConfigs : Start(c)

\* Frame callbacks of a run that goes on after its match is decided.
MaxRematch == 40

\* A frame callback at the display's interval. While no match is on, the one
\* that clears lastTimeRef (those after it only pass the time); in a match,
\* once the reset timer of the goal before it has expired (a rematch begins
\* later than RESET_DELAY after the deciding goal).
Play ==
  /\ frames < MaxRematch
  /\ Idle => lastTimeRef # 0
  /\ ~Idle => timers = <<>>
  /\ Update(setup.cadence)
  /\ UNCHANGED <<setup, scn, events>>

NextRematch == Play \/ TimerFire \/ StartGame \/ Settle

SpecRematch == InitRematch /\ [][NextRematch]_vars

\* ------------------------------------------- the header buttons of part_000

\* part_000 at the menu after construction, with each service, with and
\* without a key.
LateConfigs ==
  { Config("C", "part_000", service, key, Cadence, "kickoff", InitialGameState("part_000")) :
      service \in {"geminiService", "part_001"}, key \in BOOLEAN }

InitLate == \E c \in LateConfigs : Start(c)

\* Presses of the header buttons per run.
MaxPresses == 4

\* A press of a header button: its handler h runs on the App, then the render.
Press(h) ==
  /\ events < MaxPresses
  /\ events' = events + 1
  /\ Render(h, goalOverlay, requestRef)
  /\ UNCHANGED <<setup, canvasVars, lastTimeRef, now, settled, calls, steps, scn, frames>>

\* START / PLAY AGAIN: the header button while no match is under way.
PressStart ==
  /\ ~gameState.isPlaying
  /\ Press(startGame_part(App))

\* PAUSE / RESUME: the header button during a match.
PressPause ==
  /\ gameState.isPlaying
  /\ Press(togglePause(App))

\* EXIT during a match.
PressExit ==
  /\ gameState.isPlaying
  /\ Press(exitToMenu(App))

\* A frame callback at the display's interval, the puck at rest at the centre.
IdleFrame ==
  /\ frames < MaxFrames
  /\ Update(setup.cadence)
  /\ UNCHANGED <<setup, scn, events>>

NextLate == PressStart \/ PressPause \/ PressExit \/ Settle \/ IdleFrame

SpecLate == InitLate /\ [][NextLate]_vars

\* ------------------------------------------- one collision call on its own

\* Where a collision call can find the puck: on the centre of the obstacle,
\* inside it, touching it and clear of it, at rest and moving either way; the
\* obstacle is the player's paddle, at rest or moving, or a goal post.
Placements ==
  { [name |-> "paddle",
     puck |-> <<400 + o[1], 900 + o[2], v[1], v[2]>>,
     player |-> <<400, 900, u[1], u[2]>>, ai |-> <<400, 0>>] :
      o \in {<<0, 0>>, <<30, -40>>, <<-48, 36>>, <<0, -78>>, <<0, -120>>},
      v \in {<<0, 0>>, <<0, 30>>, <<0, -30>>, <<-10, 5>>, <<2, -1>>},
      u \in {<<0, 0>>, <<0, -20>>, <<6, 8>>, <<0, -60>>} }
  \cup
  { [name |-> "post",
     puck |-> <<k.x \div ONE + o[1], k.y \div ONE + o[2] * (IF k.y = 0 THEN 1 ELSE -1),
                v[1], v[2]>>,
     player |-> <<400, 0>>, ai |-> <<400, 0>>] :
      k \in {posts[1], posts[4]},
      o \in {<<0, 0>>, <<24, 32>>, <<0, 60>>},
      v \in {<<0, 0>>, <<0, 30>>, <<0, -30>>, <<-10, 5>>} }
  \cup
  { [name |-> "glide", puck |-> <<400, 600, v[1], v[2], v[3]>>,
     player |-> <<400, 0>>, ai |-> <<400, 0>>] :
      v \in {<<0, 0, 1>>, <<30, 0, 1>>, <<-10, 5, 1>>, <<3, 300, 100>>, <<-4, 6, 100>>,
             <<27, 36, 1>>} }
  \cup
  { [name |-> "aim", puck |-> <<300, y, v[1], v[2]>>,
     player |-> <<400, 0>>, ai |-> <<400, 150>>] :
      y \in {139, 140, 300, 599, 600, 900, 1227},
      v \in {<<0, 0>>, <<-10, 5>>} }

\* The strategies the AI is aimed with: a preset, the top of the range of
\* aggression, and answers of the service below and above the range.
Strategies ==
  { RookieBot, GeminiAI(GeminiResponse("", ONE, ONE, 0)),
    GeminiAI(GeminiResponse("", 3 * ONE, -500, 0)),
    GeminiAI(GeminiResponse("", ONE, 3 * ONE, 0)) }

InitCollide ==
  \E v \in {"A", "B", "C"}, s \in Placements :
  \E g \in IF s.name = "aim" THEN Strategies ELSE {RookieBot} :
    StartAt(Config(v, "App", "geminiService", TRUE, Cadence, s.name,
                   Playing("App", IF g = RookieBot THEN "ROOKIE" ELSE "GEMINI_ADAPTIVE",
                           g, 0, 0)), s)

\* The paddle-puck collision call of the sub-step, on the player's paddle;
\* steps keeps the entities as the call received them.
Strike ==
  /\ scn = "paddle"
  /\ events = 0
  /\ events' = 1
  /\ steps' = logStep(World, isResetting, 0).steps
  /\ puck' = CASE variant = "A" -> resolvePaddleCollision_A(player, puck)
              [] variant = "B" -> resolveCollision(player, puck)
              [] variant = "C" -> resolvePaddleCollision_C(player, puck)
  /\ UNCHANGED <<setup, scn, player, ai, isResetting, inputTarget, timers, goalOverlay,
                 lastTimeRef, requestRef, now, appVars, calls, frames>>

\* The post the puck is nearest to.
nearestPost(p) ==
  posts[CHOOSE k \in DOMAIN posts :
          \A j \in DOMAIN posts :
            Hypot(p.x - posts[k].x, p.y - posts[k].y) <= Hypot(p.x - posts[j].x, p.y - posts[j].y)]

\* The puck-post collision call of the sub-step, on the nearest post.
HitPost ==
  /\ scn = "post"
  /\ events = 0
  /\ events' = 1
  /\ steps' = logStep(World, isResetting, 0).steps
  /\ puck' = CASE variant = "A" -> checkCircleCollision(puck, nearestPost(puck).x,
                                                        nearestPost(puck).y, Px(POST_RADIUS_A))
              [] variant = "B" -> post_B(puck, nearestPost(puck))
              [] variant = "C" -> post_C(puck, nearestPost(puck))
  /\ UNCHANGED <<setup, scn, player, ai, isResetting, inputTarget, timers, goalOverlay,
                 lastTimeRef, requestRef, now, appVars, calls, frames>>

\* The first step of a sub-step, on a puck in the open rink: the move and the
\* friction, for a sub-step of a tick of delta 0, of one nominal frame and of
\* the largest delta the clamp lets through.
Move ==
  /\ scn = "glide"
  /\ events = 0
  /\ events' = 1
  /\ \E dt \in {0, ONE, Px(MaxDt(variant))} :
       LET stepDt == TDiv(dt, SubSteps(variant))
       IN  /\ steps' = logStep([World EXCEPT !.dt = dt], isResetting, stepDt).steps
           /\ puck' = IF variant = "A" THEN movePuck_A(puck, stepDt)
                      ELSE integrate(puck, stepDt)
  /\ UNCHANGED <<setup, scn, player, ai, isResetting, inputTarget, timers, goalOverlay,
                 lastTimeRef, requestRef, now, appVars, calls, frames>>

\* updateAI of the tick, for a tick of one nominal frame.
Aim ==
  /\ scn = "aim"
  /\ events = 0
  /\ events' = 1
  /\ steps' = logStep([World EXCEPT !.dt = ONE], isResetting, 0).steps
  /\ ai' = CASE variant = "A" -> updateAI_A(World, ONE, gameState).ai
            [] variant = "B" -> updateAI_B(World, ONE, gameState).ai
            [] variant = "C" -> updateAI_C(World, ONE, gameState).ai
  /\ UNCHANGED <<setup, scn, puck, player, isResetting, inputTarget, timers, goalOverlay,
                 lastTimeRef, requestRef, now, appVars, calls, frames>>

NextCollide == Strike \/ HitPost \/ Move \/ Aim

SpecCollide == InitCollide /\ [][NextCollide]_vars

\* The match has just been decided by the goal of onScoreUpdate call c.
Decided(c) ==
  /\ ~gameState'.isPlaying
  /\ gameState'.score = [player |-> c.player, ai |-> c.ai]
  /\ IF c.scorer = "player"
     THEN c.player = WIN_SCORE /\ c.ai < WIN_SCORE /\ gameState'.gameResult = "WIN"
     ELSE c.ai = WIN_SCORE /\ c.player < WIN_SCORE /\ gameState'.gameResult = "LOSS"

\* C15: a match is first to 7: no score ever exceeds WIN_SCORE, and whenever
\* gameResult becomes non-null isPlaying becomes false in the same update, the
\* side that scored the deciding goal has exactly WIN_SCORE and the other side
\* fewer, and gameResult is WIN when the player scored it, LOSS when the AI did.
C15_FirstToSeven ==
  /\ [](gameState.score.player <= WIN_SCORE /\ gameState.score.ai <= WIN_SCORE)
  /\ [][(gameState.gameResult = "null" /\ gameState'.gameResult # "null") =>
          (calls' # <<>> /\ Decided(calls'[Len(calls')]))]_vars

\* C16: whenever a match starts (isPlaying goes from false to true), also
\* after a match that was won, lost or left for the menu, the puck is at rink
\* centre with zero velocity and both paddles are at their own-half anchors
\* with zero velocity.
C16_MatchStartsFromRest ==
  [][(~gameState.isPlaying /\ gameState'.isPlaying) =>
       AtStart(variant, puck', player', ai')]_vars

\* A request has just resolved with a response.
ResolvedSettle == settled'.n # settled.n /\ ~settled'.rejected

\* C17: a strategy request that resolves is applied to the state of the
\* moment, whatever happened to the match it was issued for (mode re-selected,
\* match exited or restarted): the commentary and the three numeric strategy
\* fields become those of the response; nothing invalidates a stale request.
C17_StaleResponseApplied ==
  [][ResolvedSettle =>
       /\ gameState'.commentary = settled'.data.commentary
       /\ gameState'.aiStrategy.speedMultiplier = settled'.data.aiSpeed
       /\ gameState'.aiStrategy.aggression = settled'.data.aiAggression
       /\ gameState'.aiStrategy.reactionTime = settled'.data.aiReactionDelay]_vars

\* The response to a request made at a goal has been applied at the menu,
\* after the match of that goal was exited.
C17_Witness ==
  /\ settled.n > 0 /\ settled.origin = "score" /\ ~settled.rejected
  /\ ~gameState.isPlaying /\ gameState.gameResult = "null"
  /\ gameState.score = NoScore
  /\ settled.commentary = "Select a challenge."
  /\ gameState.commentary = settled.data.commentary
  /\ gameState.aiStrategy.speedMultiplier = settled.data.aiSpeed
  /\ gameState.aiStrategy.aggression = settled.data.aiAggression
  /\ gameState.aiStrategy.reactionTime = settled.data.aiReactionDelay

\* C18: a strategy update of the advisory path writes speedMultiplier,
\* aggression and reactionTime in one state transition and leaves name as it
\* was, and the gameState a tick reads (that of update's closure) always has
\* the stored strategy, so the speedMultiplier and aggression the AI
\* controller reads come from one update, however responses and ticks
\* interleave.
C18_StrategyWrittenWhole ==
  /\ [](closure.aiStrategy = gameState.aiStrategy)
  /\ [][ResolvedSettle =>
          /\ gameState'.aiStrategy =
               [speedMultiplier |-> settled'.data.aiSpeed,
                aggression |-> settled'.data.aiAggression,
                reactionTime |-> settled'.data.aiReactionDelay,
                name |-> gameState.aiStrategy.name]
          /\ closure'.aiStrategy = gameState'.aiStrategy]_vars

\* A tick has run on a strategy that a response changed in a match under way.
C18_Witness ==
  /\ settled.n > 0 /\ ~settled.rejected
  /\ settled.aiStrategy.speedMultiplier # settled.data.aiSpeed
  /\ settled.aiStrategy.aggression # settled.data.aiAggression
  /\ closure.aiStrategy.speedMultiplier = settled.data.aiSpeed
  /\ closure.aiStrategy.aggression = settled.data.aiAggression
  /\ frames > settled.frames /\ steps # <<>>

\* The response d has the numbers of strategy st.
SameNumbers(d, st) ==
  /\ d.aiSpeed = st.speedMultiplier
  /\ d.aiAggression = st.aggression
  /\ d.aiReactionDelay = st.reactionTime

\* C19: applying a response whose aiSpeed, aiAggression and aiReactionDelay
\* equal the stored speedMultiplier, aggression and reactionTime leaves every
\* field of the AIStrategy, name too, as it was; and applying a response a
\* second time gives the AIStrategy that applying it once gave.
C19_NoOpAndIdempotent ==
  [][ResolvedSettle =>
       /\ SameNumbers(settled'.data, gameState.aiStrategy) =>
            gameState'.aiStrategy = gameState.aiStrategy
       /\ applyStrategy(gameState', settled'.data).aiStrategy = gameState'.aiStrategy]_vars

\* A response with the stored numbers has been applied.
C19_Witness ==
  /\ settled.n > 0 /\ ~settled.rejected /\ settled.kind = "text"
  /\ SameNumbers(settled.data, settled.aiStrategy)
  /\ gameState.aiStrategy = settled.aiStrategy
  /\ gameState.commentary = settled.data.commentary
  /\ settled.commentary # settled.data.commentary

\* The puck at (x, y) touches neither paddle of sub-step entry e.
Apart(x, y, r, e) ==
  /\ Hypot(x - e.player.x, y - e.player.y) >= e.player.radius + r
  /\ Hypot(x - e.ai.x, y - e.ai.y) >= e.ai.radius + r

\* The side wall the puck b reaches within a sub-step of delta d, as the x of
\* the puck's centre at that wall; 0 when it reaches none.
WallReached(b, d) ==
  IF b.x + Mul(b.vx, d) > W - b.radius THEN W - b.radius
  ELSE IF b.x + Mul(b.vx, d) < b.radius THEN b.radius
  ELSE 0

\* The sub-steps of the latest tick in which a puck in play, with zero
\* vertical velocity and a speed that friction leaves between the 0.05 under
\* which a canvas stops the puck and MAX_SPEED, reaches a side wall clear of
\* the paddles.
WallSteps ==
  { i \in DOMAIN steps :
      /\ i > 1
      /\ ~steps[i - 1].isResetting /\ ~steps[i].isResetting
      /\ steps[i - 1].puck.vy = 0
      /\ Abs(MulPpm(steps[i - 1].puck.vx, Pow(FRICTION, steps[i].stepDt))) >= 50
      /\ Abs(steps[i - 1].puck.vx) <= Px(MAX_SPEED)
      /\ WallReached(steps[i - 1].puck, steps[i].stepDt) # 0
      /\ Apart(WallReached(steps[i - 1].puck, steps[i].stepDt), steps[i - 1].puck.y,
               steps[i - 1].puck.radius, steps[i]) }

\* C20 as stated: the sub-step in which a puck heading straight at a side
\* wall with speed s reaches it leaves the puck with speed s * WALL_ELASTICITY
\* (to a hundredth of a pixel per frame), its horizontal velocity reversed,
\* its vertical velocity unchanged, and x at the wall boundary.
C20_BounceKeepsElasticShare ==
  \A i \in WallSteps :
    /\ steps[i].puck.x = WallReached(steps[i - 1].puck, steps[i].stepDt)
    /\ steps[i].puck.vy = 0
    /\ Sgn(steps[i].puck.vx) = -Sgn(steps[i - 1].puck.vx)
    /\ Abs(Abs(steps[i].puck.vx) - Mul(Abs(steps[i - 1].puck.vx), WALL_ELASTICITY)) <= Tol

\* C20: the sub-step of delta stepDt in which a puck heading straight at a
\* side wall with speed s at its start reaches the wall applies its friction
\* before the bounce: it leaves the puck with speed
\* s * FRICTION^stepDt * WALL_ELASTICITY, its horizontal velocity reversed,
\* its vertical velocity unchanged, and x at the wall boundary.
C20_BounceAfterFriction ==
  \A i \in WallSteps :
    /\ steps[i].puck.x = WallReached(steps[i - 1].puck, steps[i].stepDt)
    /\ steps[i].puck.vy = 0
    /\ steps[i].puck.vx =
         -Sgn(steps[i - 1].puck.vx)
           * Mul(Abs(MulPpm(steps[i - 1].puck.vx, Pow(FRICTION, steps[i].stepDt))),
                 WALL_ELASTICITY)

\* A puck served straight at the right wall at 30 px per frame has bounced.
C20_Witness ==
  /\ scn = "wallShot" /\ WallSteps # {}
  /\ \E i \in WallSteps :
       /\ steps[i - 1].puck.vx > Px(29)
       /\ steps[i].puck.x = W - steps[i].puck.radius
       /\ steps[i].puck.vx < 0

\* The puck as sub-step i of the frame callback of this step finds it.
PuckBefore(i) == IF i = 1 THEN puck ELSE steps'[i - 1].puck

\* The point (x, y) of a puck of radius r lies beyond a goal line, within the
\* goal mouth.
Scores(x, y, r) ==
  /\ GOAL_LEFT_X < x /\ x < GOAL_RIGHT_X
  /\ y < -r \/ y > H + r

\* C21: in each sub-step that runs in play, a goal is signalled exactly when
\* the puck's position after integration has GOAL_LEFT_X < x < GOAL_RIGHT_X
\* and y < -radius or y > H + radius (a puck on the line does not score), and
\* the sub-step that signals a goal leaves the puck as the reset put it, at
\* rink centre and at rest: no wall, post or paddle alters it.
C21_GoalCheckFirst ==
  [][frames' # frames =>
       \A i \in DOMAIN steps' :
         ~steps'[i].before =>
           /\ steps'[i].isResetting <=>
                Scores(PuckBefore(i).x + Mul(PuckBefore(i).vx, steps'[i].stepDt),
                       PuckBefore(i).y + Mul(PuckBefore(i).vy, steps'[i].stepDt),
                       PuckBefore(i).radius)
           /\ steps'[i].isResetting =>
                /\ steps'[i].puck.x = TDiv(W, 2) /\ steps'[i].puck.y = TDiv(H, 2)
                /\ steps'[i].puck.vx = 0 /\ steps'[i].puck.vy = 0]_vars

\* A tick of delta 0 has left a puck on the top goal line, within the mouth,
\* in play.
C21_Witness ==
  /\ steps # <<>> /\ steps[1].dt = 0
  /\ puck.y = -puck.radius /\ GOAL_LEFT_X < puck.x /\ puck.x < GOAL_RIGHT_X
  /\ ~isResetting /\ calls = <<>>

\* The end-wall step leaves the y and the vertical velocity of puck p alone.
EndWallsPass(p) == endWalls(p).y = p.y /\ endWalls(p).vy = p.vy

\* C22: the end-wall bounce is applied only to a puck whose x is outside the
\* goal-mouth span: for a puck with x within the span, GOAL_LEFT_X and
\* GOAL_RIGHT_X included, the end-wall step changes neither y nor the vertical
\* velocity; and no sub-step ends with the puck beyond an end wall
\* (y < -radius or y > H + radius) unless it signalled a goal.
C22_EndWallsOutsideMouth ==
  \A i \in DOMAIN steps :
    /\ (GOAL_LEFT_X <= steps[i].puck.x /\ steps[i].puck.x <= GOAL_RIGHT_X) =>
         EndWallsPass(steps[i].puck)
    /\ EndWallsPass([steps[i].puck EXCEPT !.x = GOAL_LEFT_X])
    /\ EndWallsPass([steps[i].puck EXCEPT !.x = GOAL_RIGHT_X])
    /\ -steps[i].puck.radius <= steps[i].puck.y
    /\ steps[i].puck.y <= H + steps[i].puck.radius

\* An entity whose coordinates and velocity are all numbers.
Finite(e) == NaN \notin {e.x, e.y, e.vx, e.vy}

\* The obstacle of the collision call made: its centre and its radius.
Obstacle ==
  IF scn = "paddle"
  THEN [x |-> player.x, y |-> player.y, radius |-> player.radius]
  ELSE [x |-> nearestPost(steps[1].puck).x, y |-> nearestPost(steps[1].puck).y,
        radius |-> PostRadius(variant)]

\* A collision call was made, and steps[1] holds what it was given.
Collided == scn \in {"paddle", "post"} /\ events = 1

\* The call found the puck's centre on the obstacle's centre.
Coincident == steps[1].puck.x = Obstacle.x /\ steps[1].puck.y = Obstacle.y

\* C23: a collision call that finds the puck's centre on the centre of the
\* paddle or of the goal post leaves the puck with a position and a velocity
\* that are numbers, and no longer overlapping the obstacle.
C23_CoincidentCentresGuarded ==
  (Collided /\ Coincident) =>
    /\ Finite(puck)
    /\ Hypot(puck.x - Obstacle.x, puck.y - Obstacle.y) >= puck.radius + Obstacle.radius

\* The puck and the paddle as the paddle collision call received them.
Given == steps[1].puck

Paddle == steps[1].player

Gap(a, b) == Hypot(a.x - b.x, a.y - b.y)

Overlapping == Gap(Given, Paddle) < Given.radius + Paddle.radius

\* The velocity of the puck relative to the paddle along the contact normal
\* (from the paddle's centre to the puck's), centres apart.
AlongNormal ==
  Mul(Given.vx - Paddle.vx, Div(Given.x - Paddle.x, Gap(Given, Paddle)))
    + Mul(Given.vy - Paddle.vy, Div(Given.y - Paddle.y, Gap(Given, Paddle)))

\* A paddle collision call was made on centres that are apart.
Struck == Collided /\ scn = "paddle" /\ ~Coincident

\* C24: a paddle collision call on a puck that overlaps the paddle and is
\* already moving away from it along the contact normal leaves the puck's
\* velocity as it was and moves the puck out of the overlap; a call on a puck
\* that does not overlap the paddle changes nothing.
C24_SeparatingSkipsImpulse ==
  Struck =>
    /\ ~Overlapping => puck = Given
    /\ (Overlapping /\ AlongNormal > 0) =>
         /\ puck.vx = Given.vx /\ puck.vy = Given.vy
         /\ Gap(puck, Paddle) >= Given.radius + Paddle.radius

\* The restitution coefficient of the paddle collision of canvas v.
Restitution(v) == IF v = "B" THEN 1100 ELSE 1150

\* The unit contact normal, from the paddle's centre to the puck's.
Normal ==
  [x |-> Div(Given.x - Paddle.x, Gap(Given, Paddle)),
   y |-> Div(Given.y - Paddle.y, Gap(Given, Paddle))]

\* The change of the puck's velocity along the contact normal and across it.
DeltaAlong == Mul(puck.vx - Given.vx, Normal.x) + Mul(puck.vy - Given.vy, Normal.y)

DeltaAcross == Mul(puck.vy - Given.vy, Normal.x) - Mul(puck.vx - Given.vx, Normal.y)

\* A paddle collision call of geminiService.ts or of the second canvas on an
\* overlapping puck that approaches the paddle, the puck left slower than the
\* speed cap by a pixel per tick or more.
Impulsed ==
  /\ Struck /\ variant \in {"B", "C"}
  /\ Overlapping /\ AlongNormal < 0
  /\ Hypot(puck.vx, puck.vy) <= Px(MAX_SPEED - 1)

\* C25 as stated: the collision of an approaching puck changes the paddle's
\* velocity too, by its share of the impulse.
C25_PaddleRecoils ==
  (Struck /\ Overlapping /\ AlongNormal < 0) =>
    (player.vx # Paddle.vx \/ player.vy # Paddle.vy)

\* C25, amended: the paddle's velocity is what it was, in every canvas; in
\* geminiService.ts and the second canvas the impulse -(1 + restitution) *
\* velAlongNormal / (1/paddleMass + 1/puckMass) goes to the puck alone, whose
\* velocity changes by impulse / puckMass along the normal and not across it.
C25_PuckTakesWholeImpulse ==
  /\ Struck => (player.vx = Paddle.vx /\ player.vy = Paddle.vy)
  /\ Impulsed =>
       /\ Abs(DeltaAlong - TDiv(-Mul(ONE + Restitution(variant), AlongNormal) * Paddle.mass,
                                Paddle.mass + Given.mass)) <= Tol
       /\ Abs(DeltaAcross) <= Tol

C25_Witness ==
  /\ Impulsed /\ variant = "B"
  /\ Paddle.vx # 0 /\ Paddle.vy # 0
  /\ DeltaAlong > Px(10)

\* The minimum "pop" speed of a paddle strike.
MinPop == Px(5)

\* C26: after a paddle collision call on a puck that overlaps the paddle the
\* puck's speed is at least the minimum pop speed, whatever velocity the
\* collision left it, a zero velocity included.
C26_StrikePopsPuck ==
  (Struck /\ Overlapping) => Hypot(puck.vx, puck.vy) >= MinPop - Tol

\* The first step of a sub-step was made, and steps[1] holds what it was
\* given: the puck and the sub-step's delta.
Moved == scn = "glide" /\ events = 1

\* FRICTION^dt of the sub-step made, in millionths.
Factor == Pow(FRICTION, steps[1].stepDt)

\* The first canvas sets a component slower than 0.05 to zero.
Stopped(v) == variant = "A" /\ Abs(v) < 50

\* C27 as stated: the friction step leaves both velocity components
\* multiplied by FRICTION^dt, a factor in (0, 1], so the speed does not grow;
\* with dt = 0 the velocity is what it was.
C27_FrictionScalesBoth ==
  Moved =>
    /\ 0 < Factor /\ Factor <= MILLION
    /\ puck.vx = MulPpm(Given.vx, Factor)
    /\ puck.vy = MulPpm(Given.vy, Factor)
    /\ Hypot(puck.vx, puck.vy) <= Hypot(Given.vx, Given.vy)
    /\ steps[1].stepDt = 0 => (puck.vx = Given.vx /\ puck.vy = Given.vy)

\* A velocity component after the friction and, in the first canvas, the stop.
Decayed(v) == IF Stopped(MulPpm(v, Factor)) THEN 0 ELSE MulPpm(v, Factor)

\* The first canvas then scales a velocity faster than MAX_SPEED down to it.
Capped == variant = "A" /\ Hypot(Decayed(Given.vx), Decayed(Given.vy)) > Px(MAX_SPEED)

\* C27, amended: as stated, except that the first canvas then sets to zero
\* each component slower than 0.05, with dt = 0 too, before its clamp to
\* MAX_SPEED.
C27_FrictionThenStop ==
  Moved =>
    /\ 0 < Factor /\ Factor <= MILLION
    /\ ~Capped => (puck.vx = Decayed(Given.vx) /\ puck.vy = Decayed(Given.vy))
    /\ Hypot(puck.vx, puck.vy) <= Hypot(Given.vx, Given.vy)
    /\ (steps[1].stepDt = 0 /\ ~Capped) =>
         /\ puck.vx = IF Stopped(Given.vx) THEN 0 ELSE Given.vx
         /\ puck.vy = IF Stopped(Given.vy) THEN 0 ELSE Given.vy

C27_Witness ==
  /\ Moved /\ variant = "A"
  /\ steps[1].stepDt = ONE
  /\ Given.vx # 0 /\ puck.vx = 0
  /\ Given.vy > puck.vy /\ puck.vy > 0

\* updateAI was called, and steps[1] holds the entities as it found them.
Aimed == scn = "aim" /\ events = 1

Bot == steps[1].ai

Aggression == gameState.aiStrategy.aggression

\* The target point the call chose.
AimedAt ==
  CASE variant = "A" -> aiTarget_A(Bot, Given, Aggression)
    [] variant = "B" -> aiTarget_B(Bot, Given, Aggression)
    [] variant = "C" -> aiTarget_C(Bot, Given, Aggression)

\* The three cases of the target selection.
Recovering == Given.y < TDiv(H, 2) /\ Given.y < Bot.y - Px(10)

Striking == Given.y < TDiv(H, 2) /\ Given.y >= Bot.y - Px(10)

Defending == Given.y >= TDiv(H, 2)

\* C28 as stated: the recovery anchor is (W/2, 100), the strike target
\* (puck.x + puck.vx * aggression * 8, puck.y + 15), the defensive target x
\* is puck.x.
C28_TargetThresholds ==
  Aimed =>
    /\ Recovering => AimedAt = [x |-> TDiv(W, 2), y |-> Px(100)]
    /\ Striking => AimedAt = [x |-> Given.x + Mul(Given.vx, Mul(Aggression, Px(8))),
                              y |-> Given.y + Px(15)]
    /\ Defending => AimedAt.x = Given.x

\* The numbers of the target selection of canvas v: the row of the recovery
\* anchor, the look-ahead of the strike and its offset behind the puck, and
\* the home row, the gain and the floor of the guard position.
AnchorRow(v) == IF v = "A" THEN Px(80) ELSE Px(100)

LookAhead(v) == IF v = "A" THEN 0 ELSE IF v = "B" THEN Px(8) ELSE Px(10)

Behind(v) == IF v = "B" THEN Px(15) ELSE Px(20)

HomeRow(v) == IF v = "A" THEN Px(150) ELSE IF v = "B" THEN Px(180) ELSE Px(200)

Gain(v) == IF v = "A" THEN 400 ELSE IF v = "B" THEN 300 ELSE 250

Floor(v) == IF v = "A" THEN Px(50) ELSE IF v = "B" THEN Px(80) ELSE Px(100)

\* C28, amended: the thresholds are as stated and exactly one case applies;
\* the anchor row, the look-ahead, the offset behind the puck and the guard
\* position are those of the canvas.
C28_TargetThresholdsPerCanvas ==
  Aimed =>
    /\ Cardinality({c \in {"recover", "strike", "defend"} :
                      \/ c = "recover" /\ Recovering
                      \/ c = "strike" /\ Striking
                      \/ c = "defend" /\ Defending}) = 1
    /\ Recovering => AimedAt = [x |-> TDiv(W, 2), y |-> AnchorRow(variant)]
    /\ Striking =>
         AimedAt = [x |-> Given.x + Mul(Given.vx, Mul(Aggression, LookAhead(variant))),
                    y |-> Given.y + Behind(variant)]
    /\ Defending =>
         AimedAt = [x |-> Given.x,
                    y |-> clamp(HomeRow(variant)
                                  + Mul(Given.y - TDiv(H, 2), Mul(Aggression, Gain(variant))),
                                Floor(variant), Mul(H, 450))]

C28_Witness ==
  /\ Aimed /\ variant = "B"
  /\ Given.y = TDiv(H, 2) /\ Defending
  /\ AimedAt = [x |-> Given.x, y |-> Px(180)]
  /\ ai.x < Bot.x

\* The aggression is in its documented range, 0.0 to 1.0.
InRange == 0 <= Aggression /\ Aggression <= ONE

\* C29 as stated: the defensive target y is within [80, 0.45 * H] for every
\* aggression, and within the AI's third of the rink for aggression in [0, 1].
C29_GuardWithinThird ==
  (Aimed /\ Defending) =>
    /\ Px(80) <= AimedAt.y /\ AimedAt.y <= Mul(H, 450)
    /\ InRange => AimedAt.y <= TDiv(H, 3)

\* C29, amended: the defensive target y is within [floor, 0.45 * H] for every
\* aggression, the floor 80 in geminiService.ts, 100 in the second canvas and
\* 50 in the first; for aggression in [0, 1] and a puck not beyond the goal
\* threshold (y <= H + radius) it is within the AI's third in geminiService.ts
\* and the second canvas, and at most 150 + 0.4 * (H/2 + radius) in the first.
C29_GuardWithinCanvasRange ==
  (Aimed /\ Defending) =>
    /\ Floor(variant) <= AimedAt.y /\ AimedAt.y <= Mul(H, 450)
    /\ (InRange /\ Given.y <= H + Given.radius) =>
         AimedAt.y <= IF variant = "A"
                      THEN Px(150) + Mul(TDiv(H, 2) + Given.radius, 400)
                      ELSE TDiv(H, 3)

C29_Witness ==
  /\ Aimed /\ Defending /\ variant = "B"
  /\ Aggression > ONE
  /\ AimedAt.y = Mul(H, 450)
  /\ ai.y > Bot.y

\* The steps of a behaviour: a pointer or touch sample, a frame callback in
\* which the simulation ran, and one in which a goal was registered.
Sampled == frames' = frames /\ events' # events

Ticked == frames' # frames /\ steps' # <<>>

Reset == frames' # frames /\ calls' # <<>>

\* The player's paddle is where it was, its velocity decayed as the canvas
\* decays it (the first canvas leaves it as it is).
PaddleCoasts ==
  /\ player'.x = player.x /\ player'.y = player.y
  /\ player'.vx = IF variant = "A" THEN player.vx ELSE Mul(player.vx, 800)
  /\ player'.vy = IF variant = "A" THEN player.vy ELSE Mul(player.vy, 800)

\* C30 as stated: a sample sets the input target, a goal reset clears it,
\* nothing else changes it; with no target a tick leaves the player's paddle
\* where it is.
C30_TargetClearedOnReset ==
  [][/\ Sampled => inputTarget'.set
     /\ Reset => inputTarget' = NoTarget
     /\ (~Sampled /\ ~Reset) => inputTarget' = inputTarget
     /\ (Ticked /\ ~Reset /\ ~inputTarget.set) => PaddleCoasts]_vars

\* C30, amended: as stated, except that a goal reset of the first canvas sets
\* the input target to the paddle's start point.
C30_TargetResetPerCanvas ==
  [][/\ Sampled => inputTarget'.set
     /\ Reset => inputTarget' = IF variant = "A"
                                THEN Target(TDiv(W, 2), H - Px(ANCHOR_A))
                                ELSE NoTarget
     /\ (~Sampled /\ ~Reset) => inputTarget' = inputTarget
     /\ (Ticked /\ ~Reset /\ ~inputTarget.set) => PaddleCoasts]_vars

C30_Witness ==
  /\ variant = "B" /\ isResetting /\ timers # <<>>
  /\ inputTarget.set
  /\ frames > 1

\* A sample taken while the match is paused has set the target, and frames
\* went by.
C30_WitnessPaused ==
  /\ gameState.isPaused /\ inputTarget.set
  /\ frames > 1 /\ steps = <<>>

\* C31: at most one reset timer is pending, and the phase is RESETTING
\* exactly while one is pending; a frame callback that starts in RESETTING
\* registers no goal and starts no reset.
C31_OneResetAtATime ==
  /\ [](Len(timers) <= 1 /\ (isResetting <=> timers # <<>>))
  /\ [][(isResetting /\ frames' # frames) =>
          (calls' = <<>> /\ timers' = timers /\ isResetting')]_vars

C31_Witness ==
  /\ isResetting /\ Len(timers) = 1
  /\ gameState.isPlaying /\ ~gameState.isPaused
  /\ steps # <<>> /\ steps[1].before /\ steps[Len(steps)].isResetting
  /\ calls = <<>>
  /\ settled.n > 0

\* C32: after mount exactly one frame callback is pending in every state,
\* whichever handler ran last: a frame callback (also one that registered a
\* goal and so changed the score and the goal overlay from inside the tick),
\* the reset timer, a mode / start / pause / exit press or a settled strategy
\* request; and one display refresh runs one tick.
C32_OnePendingCallback ==
  /\ [](requestRef = 1)
  /\ [][frames' # frames => frames' = frames + 1]_vars

\* A frame callback registered a goal: the overlay and the score changed from
\* inside the tick, and the loop was registered again with the new state.
C32_Witness ==
  /\ calls # <<>> /\ goalOverlay # "null" /\ isResetting
  /\ closure = gameState
  /\ closure.score.player + closure.score.ai > 0
  /\ requestRef = 1

\* The goal a frame callback registered.
Goal == calls'[1]

\* C33: a frame callback that registers a goal registers one, computed from
\* the score as stored when the callback starts (the closure's score is the
\* stored one), and the stored score changes by +1 for the scoring side and
\* by 0 for the other.
C33_GoalCountsOnce ==
  [][(frames' # frames /\ calls' # <<>>) =>
       /\ Len(calls') = 1
       /\ closure.score = gameState.score
       /\ gameState'.score.player =
            gameState.score.player + (IF Goal.scorer = "player" THEN 1 ELSE 0)
       /\ gameState'.score.ai =
            gameState.score.ai + (IF Goal.scorer = "ai" THEN 1 ELSE 0)]_vars

\* A second goal in a row: the score was 4-2 when the run began, 5-2 after
\* the first goal, and the frame callback that registered the second goal saw
\* 5-2.
C33_Witness ==
  /\ calls # <<>> /\ calls[1].seen = [player |-> 5, ai |-> 2]
  /\ gameState.score.player + gameState.score.ai = 8

\* C34: whenever a match starts (isPlaying goes from false to true with no
\* gameResult) the score is 0-0, also when the match before it was decided.
C34_MatchStartsLevel ==
  [][(~gameState.isPlaying /\ gameState'.isPlaying /\ gameState'.gameResult = "null") =>
       gameState'.score = NoScore]_vars

\* C35: selecting GEMINI_ADAPTIVE, whatever mode was selected before, issues
\* one GAME_START request to the advisory service.
C35_GeminiModeAsksOnce ==
  [][(SetMode /\ gameState'.mode = "GEMINI_ADAPTIVE") =>
       /\ Len(requests') = Len(requests) + 1
       /\ requests'[Len(requests')].event = "GAME_START"]_vars

\* The strategy a mode button stores for a mode.
Baseline(mode) ==
  (IF setup.app = "App" THEN setMode(App, gameState, mode)
   ELSE selectMode(App, mode)).gameState.aiStrategy

Scripted == gameState.mode \in {"ROOKIE", "PRO"}

AtBaseline(gs) ==
  /\ gs.aiStrategy.speedMultiplier = Baseline(gs.mode).speedMultiplier
  /\ gs.aiStrategy.aggression = Baseline(gs.mode).aggression

\* C36, as claimed: in ROOKIE or PRO mode, speedMultiplier and aggression at
\* the mode's baseline stay there until the mode is changed, whatever
\* happens: a match start, a goal, a response that arrives late.
C36_BaselineKept ==
  [][(Scripted /\ gameState'.mode = gameState.mode /\ AtBaseline(gameState)) =>
       AtBaseline(gameState')]_vars

\* C36, amended: in ROOKIE or PRO mode, speedMultiplier and aggression at the
\* mode's baseline stay there across every step but the arrival of an
\* advisory response, and in these modes App.tsx requests none, neither at a
\* match start nor at a goal.
C36_BaselineKeptUntilResponse ==
  [][(Scripted /\ gameState'.mode = gameState.mode /\ AtBaseline(gameState)
        /\ settled' = settled) =>
       /\ AtBaseline(gameState')
       /\ setup.app = "App" => requests' = requests]_vars

\* A goal in a ROOKIE match of App.tsx: the strategy is at the baseline and
\* no request is in flight.
C36_Witness ==
  /\ setup.app = "App" /\ gameState.mode = "ROOKIE"
  /\ calls # <<>> /\ gameState.score.player + gameState.score.ai > 0
  /\ AtBaseline(gameState) /\ requests = <<>>

\* A strategy request settles.
Answered == settled'.n # settled.n

\* C37: a strategy response that arrives while a match is under way (the
\* START press it answers came before the match began) leaves isPlaying and
\* isPaused as they are: a paused match stays paused until RESUME is pressed.
C37_LateStartIsInert ==
  [][(Answered /\ gameState.isPlaying) =>
       /\ gameState'.isPlaying
       /\ gameState'.isPaused = gameState.isPaused]_vars

\* A frame callback of the canvases with deltas up to 3 ran the player
\* controller towards a target.
Followed ==
  /\ frames' # frames /\ steps' # <<>>
  /\ variant \in {"B", "C"}
  /\ inputTarget.set /\ ~isResetting

\* Where the controller put the paddle before the clamp to the half-rink: the
\* velocity it stored, applied for the tick's delta.
Unclamped ==
  [x |-> player.x + Mul(player'.vx, steps'[1].dt),
   y |-> player.y + Mul(player'.vy, steps'[1].dt)]

\* C38: for every delta in [0, 3] one step of the player controller towards
\* a target leaves the paddle, before the clamp, no farther from the target
\* than it was and not past it on either axis.
C38_FollowNeverOvershoots ==
  [][Followed =>
       /\ Hypot(inputTarget.x - Unclamped.x, inputTarget.y - Unclamped.y)
            <= Hypot(inputTarget.x - player.x, inputTarget.y - player.y) + Tol
       /\ Sgn(inputTarget.x - Unclamped.x) * Sgn(inputTarget.x - player.x) >= 0
       /\ Sgn(inputTarget.y - Unclamped.y) * Sgn(inputTarget.y - player.y) >= 0]_vars

\* A paddle collision call of geminiService.ts or of the second canvas on an
\* overlapping puck that approaches the paddle or rests against it.
Approaching ==
  /\ Struck /\ variant \in {"B", "C"}
  /\ Overlapping /\ AlongNormal <= 0

\* The velocity of the puck relative to the paddle along the contact normal
\* after the call.
AlongNormalAfter ==
  Mul(puck.vx - player.vx, Normal.x) + Mul(puck.vy - player.vy, Normal.y)

\* C39: after the paddle collision has applied its impulse to an approaching
\* puck, the puck no longer approaches the paddle: its velocity relative to
\* the paddle along the contact normal is not negative, also when the speed
\* cap rescaled it.
C39_ImpulseSeparates ==
  Approaching => AlongNormalAfter >= -Tol

====
